---- MODULE Spec2Model ----
(***************************************************************************)
(* A model of linux-blocks: the devfs path cache (devfs/mod.rs), the       *)
(* device-type registry (procfs/devices.rs), the mount table               *)
(* (procfs/mountinfo.rs, procfs/mod.rs) and the sysfs topology queries     *)
(* (sysfs/mod.rs, iter/slaves.rs, blocks.rs).  The kernel's pseudo file    *)
(* systems are the environment: they change between two calls of the       *)
(* library, never inside one.                                              *)
(***************************************************************************)
EXTENDS Integers, Sequences, FiniteSets, TLC

VARIABLES
    nodes,      \* devfs tree: path -> what stat() sees there
    alias,      \* <devfs>/blocks/<major:minor>: Devno -> path it links to
    cache,      \* DevFs.cache: Devno -> memoized path
    lastScan,   \* history: Devno -> path a scan returned for it, while that path stays valid
    res,        \* what the last DevFs call returned and how
    devfile,    \* <procfs>/devices: whether it can be read, and its lines
    registry,   \* Devices.cache: the DevicesCache snapshot
    rres,       \* what the last Devices / ProcFs::is_type call returned and how
    borrow,     \* Devices.cache's RefCell: the Ref handles to the snapshot that are alive
    mtab,       \* <procfs>/self/mountinfo: its lines
    mres,       \* what the last MountInfos / mountinfo_from_path call returned and how
    sysfs,      \* sysfs: Devno -> the node dev/block/<major:minor> leads to
    sres        \* what the last topology call returned

devfsVars == <<nodes, alias, cache, lastScan, res>>

regVars == <<devfile, registry, rres, borrow>>

mntVars == <<mtab, mres>>

sysVars == <<sysfs, sres>>

vars == <<nodes, alias, cache, lastScan, res, devfile, registry, rres, borrow, mtab, mres, sysfs, sres>>

(***************************************************************************)
(* Text.  A string is a sequence of one-character strings, so that trim,   *)
(* split, starts_with, parse and to_lowercase are computed as Rust's       *)
(* standard library computes them.                                         *)
(***************************************************************************)
None == [some |-> FALSE]

Some(x) == [some |-> TRUE, v |-> x]

\* Result::Ok and Result::Err (of an io::ErrorKind or a parse error)
Ok(x) == [ok |-> TRUE, v |-> x]

Err(kind) == [ok |-> FALSE, err |-> kind]

\* a panic: the call unwinds and hands its caller no value
Panicked == [ok |-> FALSE, err |-> "panic"]

IsWhite(c) == c \in {" ", "\t", "\n"}

IsDigit(c) == c \in {"0", "1", "2", "3", "4", "5", "6", "7", "8", "9"}

DigitVal(c) ==
    CASE c = "0" -> 0 [] c = "1" -> 1 [] c = "2" -> 2 [] c = "3" -> 3 [] c = "4" -> 4
      [] c = "5" -> 5 [] c = "6" -> 6 [] c = "7" -> 7 [] c = "8" -> 8 [] c = "9" -> 9

\* char::to_lowercase on the letters the inputs use
LowerChar(c) ==
    CASE c = "L" -> "l" [] c = "S" -> "s" [] c = "D" -> "d" [] OTHER -> c

to_lowercase(s) == [i \in 1..Len(s) |-> LowerChar(s[i])]

RECURSIVE trim_start(_)
trim_start(s) == IF s # <<>> /\ IsWhite(Head(s)) THEN trim_start(Tail(s)) ELSE s

RECURSIVE trim_end(_)
trim_end(s) ==
    IF s # <<>> /\ IsWhite(s[Len(s)]) THEN trim_end(SubSeq(s, 1, Len(s) - 1)) ELSE s

\* str::trim
trim(s) == trim_end(trim_start(s))

\* str::starts_with
starts_with(s, prefix) == Len(s) >= Len(prefix) /\ SubSeq(s, 1, Len(prefix)) = prefix

\* the pieces of s between occurrences of sep, as str::split yields them:
\* cur is the piece being read
RECURSIVE SplitFrom(_, _, _)
SplitFrom(s, sep, cur) ==
    IF s = <<>> THEN <<cur>>
    ELSE IF Head(s) = sep THEN <<cur>> \o SplitFrom(Tail(s), sep, <<>>)
    ELSE SplitFrom(Tail(s), sep, Append(cur, Head(s)))

\* str::split(sep)
split(s, sep) == SplitFrom(s, sep, <<>>)

RECURSIVE SplitWsFrom(_, _)
SplitWsFrom(s, cur) ==
    IF s = <<>> THEN (IF cur = <<>> THEN <<>> ELSE <<cur>>)
    ELSE IF IsWhite(Head(s))
         THEN (IF cur = <<>> THEN <<>> ELSE <<cur>>) \o SplitWsFrom(Tail(s), <<>>)
    ELSE SplitWsFrom(Tail(s), Append(cur, Head(s)))

\* str::split_whitespace: the non-empty runs of non-whitespace
split_whitespace(s) == SplitWsFrom(s, <<>>)

ParseErr == 0 - 1

RECURSIVE ParseDigits(_, _)
ParseDigits(s, acc) ==
    IF s = <<>> THEN acc
    ELSE IF ~IsDigit(Head(s)) THEN ParseErr
    ELSE ParseDigits(Tail(s), acc * 10 + DigitVal(Head(s)))

\* str::parse::<u32> / ::<usize>: an optional '+', then one or more digits
\* (the inputs drawn stay far below the type's maximum); ParseErr on failure
parse_int(s) ==
    LET body == IF s # <<>> /\ Head(s) = "+" THEN Tail(s) ELSE s
    IN  IF body = <<>> THEN ParseErr ELSE ParseDigits(body, 0)

(***************************************************************************)
(* Devno: a (major, minor) pair behind makedev / major / minor.            *)
(***************************************************************************)
\* libc::makedev: a 64-bit dev_t holds the major's bits 0..11 at 8..19 and
\* 12..31 at 44..63, the minor's bits 0..7 at 0..7 and 8..31 at 20..43; the
\* four bit fields are kept apart
makedev(ma, mi) ==
    [majlo |-> ma % 4096, majhi |-> ma \div 4096, minlo |-> mi % 256, minhi |-> mi \div 256]

\* Devno::major with the 12 low bits alone
major_Low12(d) == d.majlo

major(d) == d.majhi * 4096 + d.majlo

minor(d) == d.minhi * 256 + d.minlo

D_sda == makedev(8, 0)

D_sda1 == makedev(8, 1)

NoDev == makedev(0, 0)

DevfsDevnos == {D_sda, D_sda1}

(***************************************************************************)
(* The devfs tree.  Directories are fixed; what each node slot holds is    *)
(* state.  Children lists a directory in read_dir order.                   *)
(***************************************************************************)
NoPath == "-"

DevfsRoot == "/dev"

DevfsDirs == {"/dev", "/dev/mapper", "/dev/shm"}

Children(dir) ==
    CASE dir = "/dev" -> <<"/dev/sda", "/dev/.sdh", "/dev/shm", "/dev/mapper", "/dev/sdb">>
      [] dir = "/dev/mapper" -> <<"/dev/mapper/x">>
      [] dir = "/dev/shm" -> <<"/dev/shm/sds">>

FileName(p) ==
    CASE p = "/dev/sda" -> "sda"
      [] p = "/dev/.sdh" -> ".sdh"
      [] p = "/dev/shm" -> "shm"
      [] p = "/dev/mapper" -> "mapper"
      [] p = "/dev/sdb" -> "sdb"
      [] p = "/dev/mapper/x" -> "x"
      [] p = "/dev/shm/sds" -> "sds"

HiddenNames == {".sdh"}

\* node slots the environment creates, removes and renumbers
MainSlots == {"/dev/sda", "/dev/mapper/x", "/dev/sdb"}

ExtraSlots == {"/dev/.sdh", "/dev/shm/sds"}

Slots == MainSlots \cup ExtraSlots

Absent == [kind |-> "none", rdev |-> NoDev]

Other == [kind |-> "other", rdev |-> NoDev]

Blk(d) == [kind |-> "blk", rdev |-> d]

Lnk(d) == [kind |-> "lnk", rdev |-> d]

\* Path::exists (follows symbolic links)
exists(fsys, p) == p \in Slots /\ fsys[p].kind # "none"

\* metadata().file_type().is_block_device() (follows symbolic links)
is_block_device(fsys, p) == exists(fsys, p) /\ fsys[p].kind \in {"blk", "lnk"}

\* Devno::from(metadata().rdev())
rdev(fsys, p) == fsys[p].rdev

is_symlink(fsys, p) == p \in Slots /\ fsys[p].kind = "lnk"

(***************************************************************************)
(* BlocksIterator::next, run to exhaustion over a directory listing: the   *)
(* block-device entries it yields, in order.                               *)
(***************************************************************************)
RECURSIVE BlocksIterator_IntoShm(_, _)
\* BlocksIterator::next without the test on the name shm
BlocksIterator_IntoShm(fsys, entries) ==
    IF entries = <<>> THEN <<>>
    ELSE LET e == Head(entries)
             rest == BlocksIterator_IntoShm(fsys, Tail(entries))
         IN  IF e \in Slots /\ fsys[e].kind = "none" THEN rest
             ELSE IF is_symlink(fsys, e) THEN rest
             ELSE IF FileName(e) \in HiddenNames THEN rest
             ELSE IF e \in DevfsDirs THEN BlocksIterator_IntoShm(fsys, Children(e)) \o rest
             ELSE IF is_block_device(fsys, e) THEN <<e>> \o rest
             ELSE rest

RECURSIVE BlocksIterator(_, _)
BlocksIterator(fsys, entries) ==
    IF entries = <<>> THEN <<>>
    ELSE LET e == Head(entries)
             rest == BlocksIterator(fsys, Tail(entries))
         IN  IF e \in Slots /\ fsys[e].kind = "none" THEN rest
             ELSE IF is_symlink(fsys, e) THEN rest
             ELSE IF FileName(e) \in HiddenNames THEN rest
             ELSE IF FileName(e) = "shm" THEN rest
             ELSE IF e \in DevfsDirs THEN BlocksIterator(fsys, Children(e)) \o rest
             ELSE IF is_block_device(fsys, e) THEN <<e>> \o rest
             ELSE rest

\* DevFs::iter
iter(fsys) == BlocksIterator(fsys, Children(DevfsRoot))

(***************************************************************************)
(* DevFs::find_in_cache: the memoized path if it still validates; the      *)
(* entry is removed otherwise.                                             *)
(***************************************************************************)
cache_get(c, d) == c[d]

\* DevFs::find_in_cache dropping, on a miss, every entry that no longer validates
find_in_cache_EvictAllStale(fsys, c, d) ==
    LET p == cache_get(c, d)
    IN  IF p # NoPath /\ exists(fsys, p) /\ is_block_device(fsys, p) /\ rdev(fsys, p) = d
        THEN [cache |-> c, found |-> p]
        ELSE [cache |-> [x \in DOMAIN c |->
                            IF /\ x # d
                               /\ c[x] # NoPath
                               /\ is_block_device(fsys, c[x])
                               /\ rdev(fsys, c[x]) = x
                            THEN c[x] ELSE NoPath],
              found |-> NoPath]

find_in_cache(fsys, c, d) ==
    LET p == cache_get(c, d)
    IN  IF p # NoPath /\ exists(fsys, p) /\ is_block_device(fsys, p) /\ rdev(fsys, p) = d
        THEN [cache |-> c, found |-> p]
        ELSE [cache |-> [c EXCEPT ![d] = NoPath], found |-> NoPath]

\* the loop of DevFs::by_dev over the iterator's items
RECURSIVE ScanLoop(_, _, _, _)
ScanLoop(fsys, c, items, d) ==
    IF items = <<>> THEN [cache |-> c, found |-> NoPath]
    ELSE LET p == Head(items) IN
         IF exists(fsys, p)
         THEN LET dd == rdev(fsys, p)
                  c2 == [c EXCEPT ![dd] = p]
              IN  IF dd = d THEN [cache |-> c2, found |-> p]
                  ELSE ScanLoop(fsys, c2, Tail(items), d)
         ELSE ScanLoop(fsys, c, Tail(items), d)

\* DevFs::by_dev
by_dev(fsys, c, d) ==
    LET hit == find_in_cache(fsys, c, d)
    IN  IF hit.found # NoPath
        THEN [cache |-> hit.cache, found |-> hit.found, route |-> "cache"]
        ELSE LET s == ScanLoop(fsys, hit.cache, iter(fsys), d)
             IN  [cache |-> s.cache, found |-> s.found, route |-> "scan"]

\* DevFs::resolve
resolve(fsys, al, c, d) ==
    LET path == al[d]
    IN  IF path # NoPath /\ exists(fsys, path)
        THEN IF is_block_device(fsys, path)
             THEN [cache |-> c, status |-> "Ok", path |-> path, route |-> "alias"]
             ELSE [cache |-> c, status |-> "InvalidInput", path |-> NoPath, route |-> "alias"]
        ELSE LET r == by_dev(fsys, c, d)
             IN  IF r.found # NoPath
                 THEN [cache |-> r.cache, status |-> "Ok", path |-> r.found, route |-> r.route]
                 ELSE [cache |-> r.cache, status |-> "NotFound", path |-> NoPath, route |-> r.route]

(***************************************************************************)
(* The device-type registry: procfs/devices.rs.                            *)
(***************************************************************************)
EmptyMap == [k \in {} |-> 0]

MapPut(m, k, v) == [x \in DOMAIN m \cup {k} |-> IF x = k THEN v ELSE m[x]]

\* IndexSet::get_index_of, 0 when absent (indices count from 1 here)
get_index_of(names, name) ==
    IF \E i \in 1..Len(names) : names[i] = name
    THEN CHOOSE i \in 1..Len(names) : names[i] = name
    ELSE 0

\* IndexSet::insert_full(name).0 and the set afterwards
insert_full(names, name) ==
    IF get_index_of(names, name) # 0
    THEN [idx |-> get_index_of(names, name), names |-> names]
    ELSE [idx |-> Len(names) + 1, names |-> Append(names, name)]

DevicesCache_new == [names |-> <<>>, by_id |-> EmptyMap, by_name |-> EmptyMap]

DevicesCache_insert(c, id, name) ==
    LET r == insert_full(c.names, name)
    IN  [names |-> r.names, by_id |-> MapPut(c.by_id, id, r.idx), by_name |-> c.by_name]

DevicesCache_get_by_id(c, id) ==
    IF id \in DOMAIN c.by_id /\ c.by_id[id] \in 1..Len(c.names)
    THEN Some(c.names[c.by_id[id]])
    ELSE None

DevicesCache_get_by_name(c, name) ==
    LET idx == get_index_of(c.names, name)
    IN  IF idx # 0 /\ idx \in DOMAIN c.by_name THEN Some(c.by_name[idx]) ELSE None

BlockHeader == <<"B", "l", "o", "c", "k", " ", "d", "e", "v", "i", "c", "e", "s", ":">>

\* lines().skip_while(skip_proc_devices_header).skip(1)
RECURSIVE skip_header(_)
skip_header(lines) ==
    IF lines = <<>> THEN <<>>
    ELSE IF starts_with(Head(lines), BlockHeader) THEN Tail(lines)
    ELSE skip_header(Tail(lines))

\* DeviceIterator::remap on a line that was read
remap(line) ==
    LET it == split_whitespace(trim(line))
    IN  IF Len(it) = 0 THEN [ok |-> FALSE, err |-> "InvalidInput"]
        ELSE IF parse_int(it[1]) = ParseErr THEN [ok |-> FALSE, err |-> "InvalidInput"]
        ELSE IF Len(it) < 2 THEN [ok |-> FALSE, err |-> "InvalidInput"]
        ELSE IF Len(it) > 2 THEN [ok |-> FALSE, err |-> "InvalidInput"]
        ELSE [ok |-> TRUE, id |-> parse_int(it[1]), name |-> to_lowercase(trim(it[2]))]

MaxDevLines == 2

N_sd == <<"s", "d">>

N_loop == <<"l", "o", "o", "p">>

N_device_mapper == <<"d", "e", "v", "i", "c", "e", "-", "m", "a", "p", "p", "e", "r">>

\* the lines before the block section
DevicesPreamble ==
    << <<"C", "h", "a", "r", "a", "c", "t", "e", "r", " ", "d", "e", "v", "i", "c", "e", "s", ":">>,
       <<" ", " ", "8", " ", "t", "t", "y">>,
       <<>>,
       BlockHeader >>

\* well-formed lines of the block section
GoodDevLines ==
    { <<" ", " ", "8", " ", "s", "d">>,
      <<" ", "6", "5", " ", "s", "d">>,
      <<"2", "5", "3", " ", "d", "e", "v", "i", "c", "e", "-", "m", "a", "p", "p", "e", "r">>,
      <<" ", " ", "8", " ", "L", "o", "o", "p">> }

\* a non-numeric major, a missing name, an extra token, a blank line
BadDevLines ==
    { <<" ", " ", "x", " ", "s", "d">>,
      <<" ", " ", "8">>,
      <<" ", " ", "8", " ", "s", "d", " ", "z">>,
      <<>> }

DevLines == GoodDevLines \cup BadDevLines

RemapOf == [l \in DevLines |-> remap(l)]

\* collect::<io::Result<DevicesCache>>: from_iter's inserts, cut at the first error
\* (RemapOf is remap, tabulated over the lines a device list can hold)
RECURSIVE collect(_, _)
collect(lines, acc) ==
    IF lines = <<>> THEN [ok |-> TRUE, cache |-> acc]
    ELSE LET r == RemapOf[Head(lines)]
         IN  IF ~r.ok THEN [ok |-> FALSE, err |-> r.err]
             ELSE collect(Tail(lines), DevicesCache_insert(acc, r.id, r.name))

\* Devices::refresh collecting into the snapshot it already holds
refresh_Merging(file, c) ==
    IF ~file.readable THEN [cache |-> c, status |-> "NotFound"]
    ELSE LET r == collect(skip_header(file.lines), c)
         IN  IF r.ok THEN [cache |-> r.cache, status |-> "Ok"]
             ELSE [cache |-> c, status |-> r.err]

\* Devices::refresh: the snapshot afterwards and the call's status
refresh(file, c) ==
    IF ~file.readable THEN [cache |-> c, status |-> "NotFound"]
    ELSE LET r == collect(skip_header(file.lines), DevicesCache_new)
         IN  IF r.ok THEN [cache |-> r.cache, status |-> "Ok"]
             ELSE [cache |-> c, status |-> r.err]

\* get_by_id with the refresh moved before the first probe
get_by_id_RefreshFirst(file, c, id) ==
    LET r == refresh(file, c)
    IN  IF r.status # "Ok"
        THEN [cache |-> r.cache, status |-> r.status, value |-> None,
              refreshes |-> 1, probes |-> 0]
        ELSE [cache |-> r.cache, status |-> "Ok",
              value |-> DevicesCache_get_by_id(r.cache, id),
              refreshes |-> 1, probes |-> 1]

\* Devices::get_by_id, with the number of refresh calls and of _get_by_id probes
get_by_id(file, c, id) ==
    LET v == DevicesCache_get_by_id(c, id)
    IN  IF v.some
        THEN [cache |-> c, status |-> "Ok", value |-> v, refreshes |-> 0, probes |-> 1]
        ELSE LET r == refresh(file, c)
             IN  IF r.status # "Ok"
                 THEN [cache |-> r.cache, status |-> r.status, value |-> None,
                       refreshes |-> 1, probes |-> 1]
                 ELSE [cache |-> r.cache, status |-> "Ok",
                       value |-> DevicesCache_get_by_id(r.cache, id),
                       refreshes |-> 1, probes |-> 2]

\* Devices::get_by_name, likewise
get_by_name(file, c, name) ==
    LET v == DevicesCache_get_by_name(c, name)
    IN  IF v.some
        THEN [cache |-> c, status |-> "Ok", value |-> v, refreshes |-> 0, probes |-> 1]
        ELSE LET r == refresh(file, c)
             IN  IF r.status # "Ok"
                 THEN [cache |-> r.cache, status |-> r.status, value |-> None,
                       refreshes |-> 1, probes |-> 1]
                 ELSE [cache |-> r.cache, status |-> "Ok",
                       value |-> DevicesCache_get_by_name(r.cache, name),
                       refreshes |-> 1, probes |-> 2]

\* ProcFs::is_type: the verdict, and the name get_by_id gave it
is_type(file, c, devno, ty) ==
    LET r == get_by_id(file, c, major(devno))
    IN  [cache |-> r.cache, status |-> r.status, name |-> r.value,
         value |-> (r.status = "Ok" /\ r.value.some /\ r.value.v = ty),
         refreshes |-> r.refreshes, probes |-> r.probes]

(***************************************************************************)
(* The RefCell around the snapshot.  A lookup that hits, iter() and every  *)
(* item of a DevicesIter hand their caller a Ref; RefCell::replace panics  *)
(* while one of them is alive.                                             *)
(***************************************************************************)
\* how many handles a caller keeps at a time
MaxHeld == 2

\* refs: the live Refs of lookups and of iterator items;
\* iters: for each live DevicesIter, the position of its next item
NoBorrow == [refs |-> 0, iters |-> <<>>]

\* the RefCell's count of shared borrows
Live(b) == b.refs + Len(b.iters)

\* Devices::refresh: collect, then RefCell::replace
Devices_refresh(file, c, b) ==
    LET r == refresh(file, c)
    IN  IF r.status # "Ok" THEN r
        ELSE IF Live(b) > 0 THEN [cache |-> c, status |-> "Panic"]
        ELSE r

\* Devices::get_by_id: ref tells whether the caller is handed a Ref
Devices_get_by_id(file, c, b, id) ==
    LET v == DevicesCache_get_by_id(c, id)
    IN  IF v.some
        THEN [cache |-> c, status |-> "Ok", ref |-> TRUE]
        ELSE LET r == Devices_refresh(file, c, b)
             IN  IF r.status # "Ok"
                 THEN [cache |-> r.cache, status |-> r.status, ref |-> FALSE]
                 ELSE [cache |-> r.cache, status |-> "Ok",
                       ref |-> DevicesCache_get_by_id(r.cache, id).some]

\* Devices::get_by_name, likewise
Devices_get_by_name(file, c, b, name) ==
    LET v == DevicesCache_get_by_name(c, name)
    IN  IF v.some
        THEN [cache |-> c, status |-> "Ok", ref |-> TRUE]
        ELSE LET r == Devices_refresh(file, c, b)
             IN  IF r.status # "Ok"
                 THEN [cache |-> r.cache, status |-> r.status, ref |-> FALSE]
                 ELSE [cache |-> r.cache, status |-> "Ok",
                       ref |-> DevicesCache_get_by_name(r.cache, name).some]

\* the number of items DevicesCacheIter yields
Items(c) == Cardinality(DOMAIN c.by_id)

\* the majors and names the registry is asked about
RegMajors == {8, 65, 253}

\* the majors Blocks::is_device_mapper is asked about
DmMajors == {8, 253}

RegNames == {N_sd, N_loop, N_device_mapper}

\* the block section of the device list as the file now stands
BlockSection(file) == skip_header(file.lines)

(***************************************************************************)
(* Device numbers in text: device.rs.                                      *)
(***************************************************************************)
\* the position of the first c in s, 0 when there is none
IndexOfChar(s, c) ==
    IF \E i \in 1..Len(s) : s[i] = c
    THEN CHOOSE i \in 1..Len(s) : s[i] = c /\ \A j \in 1..(i - 1) : s[j] # c
    ELSE 0

\* Devno(raw) read back through libc::major and libc::minor, for raw below 2^20
from_raw(raw) == makedev((raw \div 256) % 4096, raw % 256)

\* <Devno as FromStr>::from_str
Devno_from_str(s) ==
    LET i == IndexOfChar(s, ":")
    IN  IF i # 0
        THEN LET ma == parse_int(SubSeq(s, 1, i - 1))
                 mi == parse_int(SubSeq(s, i + 1, Len(s)))
             IN  IF ma = ParseErr \/ mi = ParseErr
                 THEN Err("ParseDevnoError")
                 ELSE Ok(makedev(ma, mi))
        ELSE LET raw == parse_int(s)
             IN  IF raw = ParseErr THEN Err("ParseDevnoError") ELSE Ok(from_raw(raw))

\* the character of a decimal digit
DigitChar(n) ==
    CASE n = 0 -> "0" [] n = 1 -> "1" [] n = 2 -> "2" [] n = 3 -> "3" [] n = 4 -> "4"
      [] n = 5 -> "5" [] n = 6 -> "6" [] n = 7 -> "7" [] n = 8 -> "8" [] n = 9 -> "9"

\* <u32 as Display>::fmt: the decimal digits, without sign or leading zeros
RECURSIVE fmt_u32(_)
fmt_u32(n) == IF n < 10 THEN <<DigitChar(n)>> ELSE fmt_u32(n \div 10) \o <<DigitChar(n % 10)>>

\* <Devno as Display>::fmt
Devno_fmt(d) == fmt_u32(major(d)) \o <<":">> \o fmt_u32(minor(d))

(***************************************************************************)
(* The mount table: procfs/mountinfo.rs and ProcFs::mountinfo_from_path.   *)
(***************************************************************************)
T_dash == <<"-">>

T_none == <<"n", "o", "n", "e">>

T_sysfs == <<"s", "y", "s", "f", "s">>

T_sys == <<"s", "y", "s">>

\* where the loop over the optional fields meets "-", from token i on; 0 if never
SeparatorAt(it, i) ==
    IF \E k \in i..Len(it) : it[k] = T_dash
    THEN CHOOSE k \in i..Len(it) : it[k] = T_dash /\ \A j \in i..(k - 1) : it[j] # T_dash
    ELSE 0

\* <MountInfo as FromStr>::from_str
MountInfo_from_str(s) ==
    LET it == split_whitespace(trim(s))
        sep == SeparatorAt(it, 7)
    IN  IF Len(it) < 1 THEN Panicked
        ELSE IF parse_int(it[1]) = ParseErr THEN Err("ParseMountInfoError")
        ELSE IF Len(it) < 2 THEN Err("ParseMountInfoError")
        ELSE IF parse_int(it[2]) = ParseErr THEN Err("ParseMountInfoError")
        ELSE IF Len(it) < 3 THEN Err("ParseMountInfoError")
        ELSE IF ~Devno_from_str(it[3]).ok THEN Err("ParseMountInfoError")
        ELSE IF Len(it) < 6 THEN Err("ParseMountInfoError")
        ELSE IF sep = 0 THEN Err("ParseMountInfoError")
        ELSE IF Len(it) < sep + 3 THEN Err("ParseMountInfoError")
        ELSE Ok([id |-> parse_int(it[1]),
                 parent_id |-> parse_int(it[2]),
                 dev |-> Devno_from_str(it[3]).v,
                 root |-> it[4],
                 mount_point |-> it[5],
                 mount_options |-> it[6],
                 fields |-> SubSeq(it, 7, sep - 1),
                 file_system |-> it[sep + 1],
                 source |-> IF it[sep + 2] = T_none THEN None ELSE Some(it[sep + 2]),
                 super_options |-> it[sep + 3]])

\* tokens with one space after each
RECURSIVE SpaceAfterEach(_)
SpaceAfterEach(toks) ==
    IF toks = <<>> THEN <<>> ELSE Head(toks) \o <<" ">> \o SpaceAfterEach(Tail(toks))

\* Display with an absent source written as nothing
MountInfo_fmt_NoNone(e) ==
    fmt_u32(e.id) \o <<" ">> \o fmt_u32(e.parent_id) \o <<" ">> \o Devno_fmt(e.dev) \o <<" ">>
        \o e.root \o <<" ">> \o e.mount_point \o <<" ">> \o e.mount_options \o <<" ">>
        \o SpaceAfterEach(e.fields)
        \o <<"-", " ">> \o e.file_system \o <<" ">>
        \o (IF e.source.some THEN e.source.v ELSE <<>>) \o <<" ">> \o e.super_options

\* <MountInfo as Display>::fmt
MountInfo_fmt(e) ==
    fmt_u32(e.id) \o <<" ">> \o fmt_u32(e.parent_id) \o <<" ">> \o Devno_fmt(e.dev) \o <<" ">>
        \o e.root \o <<" ">> \o e.mount_point \o <<" ">> \o e.mount_options \o <<" ">>
        \o SpaceAfterEach(e.fields)
        \o <<"-", " ">> \o e.file_system \o <<" ">>
        \o (IF e.source.some THEN e.source.v ELSE T_none) \o <<" ">> \o e.super_options

MaxMounts == 2

\* lines as the kernel writes them: a root mount, a bind mount of the same device,
\* sysfs, and a mount without a source
GoodMountLines ==
    {
      <<"2", "1", " ", "1", " ", "8", ":", "1", " ", "/", " ", "/", " ", "r", "w", " ", "-", " ", "e", "x", "t", "4", " ", "/", "d", "e", "v", "/", "s", "d", "a", "1", " ", "r", "w">>,
      <<"2", "2", " ", "2", "1", " ", "8", ":", "1", " ", "/", "s", "r", "v", " ", "/", "m", "n", "t", " ", "r", "w", " ", "s", "h", "a", "r", "e", "d", ":", "1", " ", "-", " ", "e", "x", "t", "4", " ", "/", "d", "e", "v", "/", "s", "d", "a", "1", " ", "r", "w">>,
      <<"2", "3", " ", "2", "1", " ", "0", ":", "2", "0", " ", "/", " ", "/", "s", "y", "s", " ", "r", "w", " ", "-", " ", "s", "y", "s", "f", "s", " ", "s", "y", "s", " ", "r", "w">>,
      <<"2", "4", " ", "2", "1", " ", "0", ":", "5", " ", "/", " ", "/", "p", "r", "o", "c", " ", "r", "w", " ", "-", " ", "p", "r", "o", "c", " ", "n", "o", "n", "e", " ", "r", "w">> }

BadMountLines ==
    {
      \* an empty line
      <<>>,
      \* a blank line
      <<" ", " ">>,
      \* an id that is no number
      <<"x", " ", "1", " ", "8", ":", "1", " ", "/", " ", "/", " ", "r", "w", " ", "-", " ", "e", "x", "t", "4", " ", "/", "d", "e", "v", "/", "s", "d", "a", "1", " ", "r", "w">>,
      \* a parent id that is no number
      <<"2", "5", " ", "y", " ", "8", ":", "1", " ", "/", " ", "/", " ", "r", "w", " ", "-", " ", "e", "x", "t", "4", " ", "/", "d", "e", "v", "/", "s", "d", "a", "1", " ", "r", "w">>,
      \* a device number that is none
      <<"2", "5", " ", "1", " ", "8", "y", "1", " ", "/", " ", "/", " ", "r", "w", " ", "-", " ", "e", "x", "t", "4", " ", "/", "d", "e", "v", "/", "s", "d", "a", "1", " ", "r", "w">>,
      \* no parent id
      <<"2", "5">>,
      \* no separator after the optional fields
      <<"2", "5", " ", "1", " ", "8", ":", "1", " ", "/", " ", "/", " ", "r", "w", " ", "s", "h", "a", "r", "e", "d", ":", "1">>,
      \* no source
      <<"2", "5", " ", "1", " ", "8", ":", "1", " ", "/", " ", "/", " ", "r", "w", " ", "-", " ", "e", "x", "t", "4">> }

MountLines == GoodMountLines \cup BadMountLines

\* line.parse() of MountInfoIterator::next, tabulated over the lines a table can hold
ParseOf == [l \in MountLines |-> MountInfo_from_str(l)]

\* MountInfoIterator::next on a line that was read
MountInfoIterator_next(line) ==
    LET r == ParseOf[line]
    IN  IF r.ok THEN r
        ELSE IF r = Panicked THEN Panicked
        ELSE Err("InvalidData")

\* MountInfos::iter, drained: the items in order, up to a panic if there is one
RECURSIVE MountInfos_iter(_)
MountInfos_iter(lines) ==
    IF lines = <<>> THEN <<>>
    ELSE IF MountInfoIterator_next(Head(lines)) = Panicked THEN <<Panicked>>
    ELSE <<MountInfoIterator_next(Head(lines))>> \o MountInfos_iter(Tail(lines))

\* the closures handed to MountInfos::find, each given by what it captures:
\* mountinfo_from_path's (mount_id, dev) and SysFs::new's (file system, source)
call(f, info) ==
    CASE f.closure = "id_or_dev" ->
             (f.mount_id.some /\ info.id = f.mount_id.v) \/ info.dev = f.dev
      [] f.closure = "fs_and_source" ->
             info.file_system = f.file_system /\ info.source = Some(f.source)

\* MountInfos::find: the first item that is an error or satisfies f
RECURSIVE find(_, _)
find(lines, f) ==
    IF lines = <<>> THEN Ok(None)
    ELSE IF ~MountInfoIterator_next(Head(lines)).ok THEN MountInfoIterator_next(Head(lines))
    ELSE IF call(f, MountInfoIterator_next(Head(lines)).v)
         THEN Ok(Some(MountInfoIterator_next(Head(lines)).v))
    ELSE find(Tail(lines), f)

\* mount_id_of with every failure of the call taken as no mount id
mount_id_of_AnyFailureIsNone(sys) ==
    IF sys.ret < 0 THEN None ELSE Some(sys.mount_id)

\* the mount id ProcFs::mountinfo_from_path takes from name_to_handle_at's outcome
mount_id_of(sys) ==
    IF sys.ret < 0 /\ sys.errno # "EOVERFLOW" THEN None ELSE Some(sys.mount_id)

\* ProcFs::mountinfo_from_path: st is what metadata() gave (the path's st_dev or an
\* error), sys the outcome of name_to_handle_at
mountinfo_from_path(lines, st, sys) ==
    IF ~st.ok THEN st
    ELSE LET r == find(lines, [closure |-> "id_or_dev",
                               mount_id |-> mount_id_of(sys), dev |-> st.v])
         IN  IF ~r.ok THEN r
             ELSE IF r.v.some THEN Ok(r.v.v)
             ELSE Err("NotFound")

\* SysFs::new: the mount point of the entry of type sysfs and source sys
SysFs_new(lines) ==
    LET r == find(lines, [closure |-> "fs_and_source",
                          file_system |-> T_sysfs, source |-> T_sys])
    IN  IF ~r.ok THEN r
        ELSE IF r.v.some THEN Ok(r.v.v.mount_point)
        ELSE Err("NotFound")

\* name_to_handle_at with a zero-sized handle on a path of the mount with this id:
\* the id is written with a 0 return and with EOVERFLOW; another failure leaves
\* the caller's 0 in place
name_to_handle_at(id, how) ==
    CASE how = "written" -> [ret |-> 0, errno |-> "", mount_id |-> id]
      [] how = "EOVERFLOW" -> [ret |-> 0 - 1, errno |-> "EOVERFLOW", mount_id |-> id]
      [] how = "EOPNOTSUPP" -> [ret |-> 0 - 1, errno |-> "EOPNOTSUPP", mount_id |-> 0]

SysOutcomes == {"written", "EOVERFLOW", "EOPNOTSUPP"}

(***************************************************************************)
(* The sysfs topology: sysfs/mod.rs, iter/slaves.rs, blocks.rs.  A node is  *)
(* the directory dev/block/<major:minor> leads to: whether it is there,    *)
(* its dm/uuid file (if any) and its slaves/ directory (if any), each      *)
(* entry of which is given by the content of its dev attribute.            *)
(***************************************************************************)
D_dm0 == makedev(253, 0)

SysDevnos == {D_sda, D_sda1, D_dm0}

D_dm1 == makedev(253, 1)

\* every device sysfs has a place for
SysNodes == SysDevnos \cup {D_dm1}

MaxSlaves == 2

U_luks2 == <<"C", "R", "Y", "P", "T", "-", "L", "U", "K", "S", "2", "-", "a", "\n">>

U_part_luks1 == <<"p", "a", "r", "t", "1", "-", "C", "R", "Y", "P", "T", "-", "L", "U", "K", "S", "1", "-", "a", "\n">>

U_lvm == <<"L", "V", "M", "-", "x", "\n">>

U_short == <<"C", "R", "Y", "P", "T", "\n">>

DmUuids == {U_luks2, U_part_luks1, U_lvm, U_short}

U_empty == <<"\n">>

U_part_only == <<"p", "a", "r", "t", "1", "\n">>

U_part_short == <<"p", "a", "r", "t", "1", "-", "C", "R", "Y", "P", "T", "\n">>

U_part_luks2 == <<"p", "a", "r", "t", "1", "-", "C", "R", "Y", "P", "T", "-", "L", "U", "K", "S", "2", "-", "a", "\n">>

U_part3_lvm == <<"p", "a", "r", "t", "3", "-", "L", "V", "M", "-", "x", "y", "z", "\n">>

U_partx_lvm == <<"p", "a", "r", "t", "x", "-", "L", "V", "M", "-", "x", "\n">>

\* uuids that exercise the part<N> prefix and the segment count
PartUuids == {U_empty, U_part_only, U_part_short, U_part_luks2, U_part3_lvm, U_partx_lvm}

P_1 == <<"1", "\n">>

P_2 == <<"2", "\n">>

P_bad == <<"x", "\n">>

\* what a partition attribute file can read as
PartitionAttrs == {P_1, P_2, P_bad}

A_sda1 == <<"8", ":", "1", "\n">>

A_sda == <<"8", ":", "0", "\n">>

A_bad == <<"x", "\n">>

DevAttrs == {A_sda1, A_sda, A_bad}

A_dm0 == <<"2", "5", "3", ":", "0", "\n">>

A_dm1 == <<"2", "5", "3", ":", "1", "\n">>

\* the dev attribute the kernel gives a device
DevAttrOf(d) ==
    CASE d = D_sda -> A_sda
      [] d = D_sda1 -> A_sda1
      [] d = D_dm0 -> A_dm0
      [] d = D_dm1 -> A_dm1

T_part == <<"p", "a", "r", "t">>

T_crypt_luks == <<"C", "R", "Y", "P", "T", "-", "L", "U", "K", "S">>

MaxChildren == 2

D_sda2 == makedev(8, 2)

A_sda2 == <<"8", ":", "2", "\n">>

\* the entries a disk's directory can hold besides the attributes above: a
\* plain file, a directory that is no partition (with and without a dev
\* attribute), and partitions whose dev attribute parses or does not
E_file == [dir |-> FALSE, partition |-> FALSE, dev |-> None]

E_queue == [dir |-> TRUE, partition |-> FALSE, dev |-> None]

E_holder == [dir |-> TRUE, partition |-> FALSE, dev |-> Some(A_sda2)]

E_sda1 == [dir |-> TRUE, partition |-> TRUE, dev |-> Some(A_sda1)]

E_sda2 == [dir |-> TRUE, partition |-> TRUE, dev |-> Some(A_sda2)]

E_bad == [dir |-> TRUE, partition |-> TRUE, dev |-> Some(A_bad)]

DirEntries == {E_file, E_queue, E_holder, E_sda1, E_sda2, E_bad}

\* the listings read_dir can give of such a directory
Listings == UNION {[1..n -> DirEntries] : n \in 0..MaxChildren}

\* every device devfs can hold a node of
DevfsNodes == DevfsDevnos \cup {D_dm0}

N_x == <<"x", "\n">>

N_y == <<"y", "\n">>

NoNode ==
    [present |-> FALSE, uuid |-> None, slaves |-> None, dev |-> <<>>, partition |-> None,
     children |-> <<>>, name |-> None]

\* a device's directory with nothing but its dev attribute
BareNode(d) ==
    [present |-> TRUE, uuid |-> None, slaves |-> None, dev |-> DevAttrOf(d), partition |-> None,
     children |-> <<>>, name |-> None]

\* SysFs::resolve: the node itself stands for its canonical path
sysfs_resolve(fs, d) ==
    IF d \in DOMAIN fs /\ fs[d].present THEN Ok(d) ELSE Err("NotFound")

\* SysFs::dm_uuid
dm_uuid(fs, d) ==
    LET p == sysfs_resolve(fs, d)
    IN  IF ~p.ok THEN p
        ELSE IF fs[p.v].uuid.some THEN Ok(Some(trim(fs[p.v].uuid.v)))
        ELSE Ok(None)

\* dm_type that takes the first two segments whatever the first is
dm_type_NoSkip(fs, d) ==
    LET u == dm_uuid(fs, d)
    IN  IF ~u.ok THEN u
        ELSE IF ~u.v.some THEN Ok(None)
        ELSE LET it == split(u.v.v, "-")
             IN  IF Len(it) < 2 THEN Err("InvalidData")
                 ELSE Ok(Some(it[1] \o <<"-">> \o it[2]))

\* SysFs::dm_type
dm_type(fs, d) ==
    LET u == dm_uuid(fs, d)
    IN  IF ~u.ok THEN u
        ELSE IF ~u.v.some THEN Ok(None)
        ELSE LET it == split(u.v.v, "-")
                 k == IF starts_with(it[1], T_part) THEN 2 ELSE 1
             IN  IF Len(it) < k THEN Err("InvalidData")
                 ELSE IF Len(it) < k + 1 THEN Err("InvalidData")
                 ELSE Ok(Some(it[k] \o <<"-">> \o it[k + 1]))

\* partition_number with the dm uuid asked before the partition attribute
partition_number_UuidFirst(fs, d) ==
    LET p == sysfs_resolve(fs, d)
        u == dm_uuid(fs, d)
        n == parse_int(split(SubSeq(u.v.v, 5, Len(u.v.v)), "-")[1])
        a == parse_int(trim(fs[p.v].partition.v))
    IN  IF ~p.ok THEN p
        ELSE IF u.ok /\ u.v.some /\ starts_with(u.v.v, T_part)
             THEN (IF n = ParseErr THEN Err("InvalidData") ELSE Ok(Some(n)))
        ELSE IF fs[p.v].partition.some
             THEN (IF a = ParseErr THEN Err("InvalidData") ELSE Ok(Some(a)))
        ELSE Ok(None)

\* SysFs::partition_number
partition_number(fs, d) ==
    LET p == sysfs_resolve(fs, d)
        u == dm_uuid(fs, d)
        n == parse_int(split(SubSeq(u.v.v, 5, Len(u.v.v)), "-")[1])
        a == parse_int(trim(fs[p.v].partition.v))
    IN  IF ~p.ok THEN p
        ELSE IF fs[p.v].partition.some
             THEN (IF a = ParseErr THEN Err("InvalidData") ELSE Ok(Some(a)))
        ELSE IF ~u.ok THEN u
        ELSE IF ~u.v.some THEN Ok(None)
        ELSE IF starts_with(u.v.v, T_part)
             THEN (IF n = ParseErr THEN Err("InvalidData") ELSE Ok(Some(n)))
        ELSE Ok(None)

\* SysFs::is_partition
is_partition(fs, d) ==
    LET n == partition_number(fs, d)
    IN  IF n.ok THEN Ok(n.v.some) ELSE n

\* SysFs::is_wholedisk
is_wholedisk(fs, d) ==
    LET x == is_partition(fs, d)
    IN  IF x.ok THEN Ok(~x.v) ELSE x

\* is_luks with the type compared whole
is_luks_Exact(fs, d) ==
    LET t == dm_type(fs, d)
    IN  IF ~t.ok THEN t
        ELSE IF t.v.some THEN Ok(t.v.v = T_crypt_luks)
        ELSE Ok(FALSE)

\* Blocks::is_luks
is_luks(fs, d) ==
    LET t == dm_type(fs, d)
    IN  IF ~t.ok THEN t
        ELSE IF t.v.some THEN Ok(starts_with(t.v.v, T_crypt_luks))
        ELSE Ok(FALSE)

\* RawSlavesIterator with only its first entry read
RawSlavesIterator_First(entries) ==
    IF entries = <<>> THEN <<>>
    ELSE LET r == Devno_from_str(trim(entries[1]))
         IN  << IF r.ok THEN r ELSE Err("InvalidData") >>

\* RawSlavesIterator, drained: one item for each entry of the directory
RawSlavesIterator(entries) ==
    [i \in 1..Len(entries) |->
        LET r == Devno_from_str(trim(entries[i]))
        IN  IF r.ok THEN r ELSE Err("InvalidData")]

\* SlavesIterator::new on a node's path
SlavesIterator_new(node) ==
    IF node.slaves.some THEN RawSlavesIterator(node.slaves.v) ELSE <<>>

\* Blocks::slaves
slaves(fs, d) ==
    LET p == sysfs_resolve(fs, d)
        l == is_luks(fs, d)
    IN  IF ~p.ok THEN p
        ELSE IF ~l.ok THEN l
        ELSE IF l.v THEN Ok(<<>>)
        ELSE Ok(SlavesIterator_new(fs[p.v]))

T_crypt_luks2 == <<"C", "R", "Y", "P", "T", "-", "L", "U", "K", "S", "2">>

T_crypt_luks1 == <<"C", "R", "Y", "P", "T", "-", "L", "U", "K", "S", "1">>

T_lvm_x == <<"L", "V", "M", "-", "x">>

\* Blocks::is_device_mapper: is_type with "device-mapper"
is_device_mapper(file, c, devno) == is_type(file, c, devno, N_device_mapper)

\* is_dm_types with a candidate matching when the type begins with it
is_dm_types_Prefix(r, t, types) ==
    IF r.status # "Ok" THEN Err(r.status)
    ELSE IF ~r.value THEN Ok(FALSE)
    ELSE IF ~t.ok THEN t
    ELSE IF ~t.v.some THEN Err("InvalidData")
    ELSE Ok(\E i \in 1..Len(types) : starts_with(t.v.v, types[i]))

\* Blocks::is_dm_types, given what is_device_mapper(devno) and dm_type(devno)
\* return (dm_type is asked only when the first is true)
is_dm_types(r, t, types) ==
    IF r.status # "Ok" THEN Err(r.status)
    ELSE IF ~r.value THEN Ok(FALSE)
    ELSE IF ~t.ok THEN t
    ELSE IF ~t.v.some THEN Err("InvalidData")
    ELSE Ok(\E i \in 1..Len(types) : t.v.v = types[i])

\* Blocks::is_dm_type
is_dm_type(r, t, ty) == is_dm_types(r, t, <<ty>>)

\* Blocks::is_luks2
is_luks2(r, t) == is_dm_type(r, t, T_crypt_luks2)

\* DirIterator, drained: one item for each entry of the directory, in the order
\* read_dir gives them
DirIterator(fs, order) ==
    [i \in 1..Len(order) |->
        LET r == Devno_from_str(trim(fs[order[i]].dev))
        IN  IF r.ok THEN r ELSE Err("InvalidData")]

\* Blocks::blocks: the BlocksIterator over <sysfs>/dev/block
sysfs_blocks(fs, order) == DirIterator(fs, order)

\* Blocks::is_disk
is_disk(fs, d) ==
    LET x == is_partition(fs, d)
    IN  IF x.ok THEN Ok(~x.v) ELSE x

\* the device whose directory holds this device's directory, None when the
\* directory above is not a block device's (it has no dev attribute)
Above(d) == IF d = D_sda1 THEN Some(D_sda) ELSE None

\* std::fs::read_to_string of the dev attribute in the directory above
read_dev_above(fs, d) ==
    IF Above(d).some /\ fs[Above(d).v].present THEN Ok(fs[Above(d).v].dev) ELSE Err("NotFound")

\* the slaves branch of Blocks::parent: the first item of RawSlavesIterator
first_slave(node) ==
    IF ~node.slaves.some THEN Err("NotFound")
    ELSE IF RawSlavesIterator(node.slaves.v) = <<>> THEN Err("NotFound")
    ELSE IF RawSlavesIterator(node.slaves.v)[1].ok
         THEN Ok(Some(RawSlavesIterator(node.slaves.v)[1].v))
    ELSE RawSlavesIterator(node.slaves.v)[1]

\* Blocks::parent with the last entry of slaves/ taken
parent_LastSlave(fs, d) ==
    LET dk == is_disk(fs, d)
        l == is_luks(fs, d)
        s == RawSlavesIterator(fs[d].slaves.v)
    IN  IF ~dk.ok THEN dk
        ELSE IF ~l.ok THEN l
        ELSE IF l.v
             THEN (IF ~fs[d].slaves.some \/ s = <<>> THEN Err("NotFound")
                   ELSE IF s[Len(s)].ok THEN Ok(Some(s[Len(s)].v)) ELSE s[Len(s)])
        ELSE Ok(None)

\* Blocks::parent with the device's own dev attribute read, not the one above
parent_OwnDev(fs, d) ==
    LET dk == is_disk(fs, d)
        l == is_luks(fs, d)
        p == sysfs_resolve(fs, d)
        r == Devno_from_str(trim(fs[d].dev))
    IN  IF ~dk.ok THEN dk
        ELSE IF ~l.ok THEN l
        ELSE IF l.v THEN (IF ~p.ok THEN p ELSE first_slave(fs[p.v]))
        ELSE IF dk.v THEN Ok(None)
        ELSE IF ~p.ok THEN p
        ELSE IF r.ok THEN Ok(Some(r.v))
        ELSE Err("InvalidData")

\* Blocks::parent
parent(fs, d) ==
    LET dk == is_disk(fs, d)
        l == is_luks(fs, d)
        p == sysfs_resolve(fs, d)
        a == read_dev_above(fs, d)
        r == Devno_from_str(trim(a.v))
    IN  IF ~dk.ok THEN dk
        ELSE IF dk.v
             THEN (IF ~l.ok THEN l
                   ELSE IF l.v THEN (IF ~p.ok THEN p ELSE first_slave(fs[p.v]))
                   ELSE Ok(None))
        ELSE IF ~l.ok THEN l
        ELSE IF l.v THEN (IF ~p.ok THEN p ELSE first_slave(fs[p.v]))
        ELSE IF ~p.ok THEN p
        ELSE IF ~a.ok THEN a
        ELSE IF r.ok THEN Ok(Some(r.v))
        ELSE Err("InvalidData")

\* the item RawPartitionsIterator::next returns at a partition's directory
partition_item(entry) ==
    IF ~entry.dev.some THEN Err("NotFound")
    ELSE IF Devno_from_str(trim(entry.dev.v)).ok THEN Devno_from_str(trim(entry.dev.v))
    ELSE Err("InvalidData")

\* RawPartitionsIterator with every directory taken for a partition
RECURSIVE RawPartitionsIterator_NoMarker(_)
RawPartitionsIterator_NoMarker(entries) ==
    IF entries = <<>> THEN <<>>
    ELSE IF ~Head(entries).dir THEN RawPartitionsIterator_NoMarker(Tail(entries))
    ELSE <<partition_item(Head(entries))>> \o RawPartitionsIterator_NoMarker(Tail(entries))

\* RawPartitionsIterator, drained, over the entries of a directory
RECURSIVE RawPartitionsIterator(_)
RawPartitionsIterator(entries) ==
    IF entries = <<>> THEN <<>>
    ELSE IF ~Head(entries).dir THEN RawPartitionsIterator(Tail(entries))
    ELSE IF Head(entries).partition
         THEN <<partition_item(Head(entries))>> \o RawPartitionsIterator(Tail(entries))
    ELSE RawPartitionsIterator(Tail(entries))

\* the step of MastersIterator::next with every device that has a parent taken
masters_item_AnyParent(fs, slave, item) ==
    IF ~item.ok THEN <<item>>
    ELSE IF ~parent(fs, item.v).ok THEN <<parent(fs, item.v)>>
    ELSE IF parent(fs, item.v).v.some THEN <<Ok(item.v)>>
    ELSE <<>>

\* the step of MastersIterator::next at one item of the inner iterator:
\* the items it returns there, none when the loop goes on
masters_item(fs, slave, item) ==
    IF ~item.ok THEN <<item>>
    ELSE IF ~parent(fs, item.v).ok THEN <<parent(fs, item.v)>>
    ELSE IF parent(fs, item.v).v = Some(slave) THEN <<Ok(item.v)>>
    ELSE <<>>

\* MastersIterator, drained, from the i-th entry of dev/block on
RECURSIVE MastersFrom(_, _, _, _)
MastersFrom(fs, slave, items, i) ==
    IF i > Len(items) THEN <<>>
    ELSE masters_item(fs, slave, items[i]) \o MastersFrom(fs, slave, items, i + 1)

\* MastersIterator::new(blocks, slave), drained
MastersIterator(fs, slave, order) == MastersFrom(fs, slave, sysfs_blocks(fs, order), 1)

\* Blocks::partitions, the iterator drained, given what is_type(devno,
\* "device-mapper") returns; asked tells whether that call is reached
partitions(t, fs, d, order) ==
    IF ~is_disk(fs, d).ok THEN [asked |-> FALSE, result |-> is_disk(fs, d)]
    ELSE IF ~is_disk(fs, d).v THEN [asked |-> FALSE, result |-> Ok(<<>>)]
    ELSE IF ~sysfs_resolve(fs, d).ok THEN [asked |-> FALSE, result |-> sysfs_resolve(fs, d)]
    ELSE IF t.status # "Ok" THEN [asked |-> TRUE, result |-> Err(t.status)]
    ELSE IF ~t.value
         THEN [asked |-> TRUE,
               result |-> Ok(RawPartitionsIterator(fs[sysfs_resolve(fs, d).v].children))]
    ELSE IF ~is_luks(fs, d).ok THEN [asked |-> TRUE, result |-> is_luks(fs, d)]
    ELSE IF is_luks(fs, d).v
         THEN [asked |-> TRUE, result |-> Ok(MastersIterator(fs, d, order))]
    ELSE [asked |-> TRUE, result |-> Ok(<<>>)]

\* SysFs::dm_name
dm_name(fs, d) ==
    LET p == sysfs_resolve(fs, d)
    IN  IF ~p.ok THEN p
        ELSE IF fs[p.v].name.some THEN Ok(Some(trim(fs[p.v].name.v)))
        ELSE Ok(None)

\* devfs.path().join("mapper").join(name)
mapper_join(name) ==
    IF name = <<"x">> THEN "/dev/mapper/x" ELSE "/dev/mapper/-"

\* what Blocks::resolve returns when it does not go on to DevFs::resolve:
\* None when it does
mapper_route(t, fs, fsys, d) ==
    IF t.status # "Ok" THEN Some([status |-> t.status, path |-> NoPath, route |-> "registry"])
    ELSE IF ~t.value THEN None
    ELSE IF ~dm_name(fs, d).ok
         THEN Some([status |-> dm_name(fs, d).err, path |-> NoPath, route |-> "sysfs"])
    ELSE IF ~dm_name(fs, d).v.some
         THEN Some([status |-> "InvalidData", path |-> NoPath, route |-> "sysfs"])
    ELSE IF exists(fsys, mapper_join(dm_name(fs, d).v.v))
         THEN Some([status |-> "Ok", path |-> mapper_join(dm_name(fs, d).v.v), route |-> "mapper"])
    ELSE None

\* Blocks::resolve with the mapper path returned whether or not it exists
blocks_resolve_Unchecked(t, l, fs, fsys, c, d) ==
    IF t.status = "Ok" /\ t.value /\ dm_name(fs, d).ok /\ dm_name(fs, d).v.some
    THEN [cache |-> c, status |-> "Ok",
          path |-> mapper_join(dm_name(fs, d).v.v), route |-> "mapper"]
    ELSE IF mapper_route(t, fs, fsys, d).some
    THEN [cache |-> c, status |-> mapper_route(t, fs, fsys, d).v.status,
          path |-> NoPath, route |-> mapper_route(t, fs, fsys, d).v.route]
    ELSE [cache |-> l.cache, status |-> l.status, path |-> l.path, route |-> l.route]

\* Blocks::resolve, given what is_device_mapper(devno) returns and what
\* DevFs::resolve(devno) does when it is reached: the answer and the path cache
\* afterwards
blocks_resolve(t, l, fs, fsys, c, d) ==
    IF mapper_route(t, fs, fsys, d).some
    THEN [cache |-> c, status |-> mapper_route(t, fs, fsys, d).v.status,
          path |-> mapper_route(t, fs, fsys, d).v.path,
          route |-> mapper_route(t, fs, fsys, d).v.route]
    ELSE [cache |-> l.cache, status |-> l.status, path |-> l.path, route |-> l.route]

\* what a slaves/ directory can hold
SlaveDirs == UNION {[1..n -> DevAttrs] : n \in 0..MaxSlaves}

(***************************************************************************)
(* The devfs specification.                                                *)
(***************************************************************************)
Idle == [op |-> "idle"]

\* the node states the environment puts into a slot
NodeStates == {Absent, Other} \cup {Blk(d) : d \in DevfsDevnos}

\* whether path p is a live block device numbered d
Denotes(fsys, p, d) == p # NoPath /\ is_block_device(fsys, p) /\ rdev(fsys, p) = d

\* an empty devfs, before any call
DevfsAtRest ==
    /\ nodes = [p \in Slots |-> Absent]
    /\ alias = [d \in DevfsNodes |-> NoPath]
    /\ cache = [d \in DevfsNodes |-> NoPath]
    /\ lastScan = [d \in DevfsNodes |-> NoPath]
    /\ res = Idle

\* Devices::new, with a device list that has no block devices yet
RegAtRest ==
    /\ devfile = [readable |-> TRUE, lines |-> DevicesPreamble]
    /\ registry = DevicesCache_new
    /\ rres = Idle
    /\ borrow = NoBorrow

\* an empty mount table, before any call
MntAtRest ==
    /\ mtab = <<>>
    /\ mres = Idle

\* a sysfs without block devices, before any call
SysAtRest ==
    /\ sysfs = [d \in SysNodes |-> NoNode]
    /\ sres = Idle

Init == DevfsAtRest /\ RegAtRest /\ MntAtRest /\ SysAtRest

\* mknod / unlink / renumbering of a device node, from outside the library
SetNode(p, st) ==
    /\ nodes[p] # st
    /\ nodes' = [nodes EXCEPT ![p] = st]
    /\ lastScan' = [d \in DevfsNodes |->
                      IF lastScan[d] = p /\ st # Blk(d) THEN NoPath ELSE lastScan[d]]
    /\ res' = Idle
    /\ UNCHANGED <<alias, cache>>
    /\ UNCHANGED <<regVars, mntVars, sysVars>>

\* udev (or anyone) links or unlinks <devfs>/blocks/<major:minor>
SetAlias(d, t) ==
    /\ alias[d] # t
    /\ alias' = [alias EXCEPT ![d] = t]
    /\ res' = Idle
    /\ UNCHANGED <<nodes, cache, lastScan>>
    /\ UNCHANGED <<regVars, mntVars, sysVars>>

\* a call of DevFs::resolve(devno)
Resolve(d) ==
    \E r \in {resolve(nodes, alias, cache, d)} :
        /\ cache' = r.cache
        /\ lastScan' = IF r.status = "Ok" /\ r.route = "scan"
                       THEN [lastScan EXCEPT ![d] = r.path]
                       ELSE lastScan
        /\ res' = [op |-> "resolve", devno |-> d, status |-> r.status, path |-> r.path,
                   route |-> r.route,
                   rescanned |-> (r.route = "scan"),
                   evicted |-> (cache[d] # NoPath /\ r.route = "scan"),
                   hadEntry |-> (cache[d] # NoPath),
                   entryValid |-> Denotes(nodes, cache[d], d),
                   scanPathValid |-> (lastScan[d] # NoPath)]
        /\ UNCHANGED <<nodes, alias>>
        /\ UNCHANGED <<regVars, mntVars, sysVars>>

Next ==
    \/ \E p \in MainSlots, st \in NodeStates : SetNode(p, st)
    \/ \E d \in DevfsDevnos, t \in MainSlots \cup {NoPath} : SetAlias(d, t)
    \/ \E d \in DevfsDevnos : Resolve(d)

Spec == Init /\ [][Next]_vars

(***************************************************************************)
(* The registry specification.                                             *)
(***************************************************************************)
InitReg == DevfsAtRest /\ RegAtRest /\ MntAtRest /\ SysAtRest

\* the kernel registers a driver: a line is added to the block section
AppendDevLine(l) ==
    /\ Len(BlockSection(devfile)) < MaxDevLines
    /\ devfile' = [devfile EXCEPT !.lines = Append(@, l)]
    /\ rres' = Idle
    /\ UNCHANGED borrow
    /\ UNCHANGED registry
    /\ UNCHANGED <<devfsVars, mntVars, sysVars>>

\* a driver goes away: a line of the block section is removed
RemoveDevLine(i) ==
    /\ i \in 1..Len(BlockSection(devfile))
    /\ devfile' = [devfile EXCEPT !.lines =
                      SubSeq(@, 1, Len(DevicesPreamble) + i - 1)
                      \o SubSeq(@, Len(DevicesPreamble) + i + 1, Len(@))]
    /\ rres' = Idle
    /\ UNCHANGED borrow
    /\ UNCHANGED registry
    /\ UNCHANGED <<devfsVars, mntVars, sysVars>>

\* procfs is unmounted or mounted again
ToggleReadable ==
    /\ devfile' = [devfile EXCEPT !.readable = ~@]
    /\ rres' = Idle
    /\ UNCHANGED borrow
    /\ UNCHANGED registry
    /\ UNCHANGED <<devfsVars, mntVars, sysVars>>

GetById(id) ==
    \E r \in {get_by_id(devfile, registry, id)} :
        /\ UNCHANGED borrow
        /\ registry' = r.cache
        /\ rres' = [op |-> "get_by_id", id |-> id, status |-> r.status, name |-> r.value,
                    refreshes |-> r.refreshes, probes |-> r.probes,
                    firstHit |-> (id \in DOMAIN registry.by_id)]
        /\ UNCHANGED devfile
        /\ UNCHANGED <<devfsVars, mntVars, sysVars>>

GetByName(name) ==
    \E r \in {get_by_name(devfile, registry, name)} :
        /\ UNCHANGED borrow
        /\ registry' = r.cache
        /\ rres' = [op |-> "get_by_name", arg |-> name, status |-> r.status,
                    majors |-> r.value,
                    refreshes |-> r.refreshes, probes |-> r.probes,
                    firstHit |-> DevicesCache_get_by_name(registry, name).some]
        /\ UNCHANGED devfile
        /\ UNCHANGED <<devfsVars, mntVars, sysVars>>

IsType(devno, ty) ==
    \E r \in {is_type(devfile, registry, devno, ty)} :
        /\ UNCHANGED borrow
        /\ registry' = r.cache
        /\ rres' = [op |-> "is_type", id |-> major(devno), ty |-> ty, status |-> r.status,
                    name |-> r.name, verdict |-> r.value,
                    refreshes |-> r.refreshes, probes |-> r.probes,
                    firstHit |-> (major(devno) \in DOMAIN registry.by_id)]
        /\ UNCHANGED devfile
        /\ UNCHANGED <<devfsVars, mntVars, sysVars>>

Refresh ==
    \E r \in {refresh(devfile, registry)} :
        /\ UNCHANGED borrow
        /\ registry' = r.cache
        /\ rres' = [op |-> "refresh", status |-> r.status, before |-> registry]
        /\ UNCHANGED devfile
        /\ UNCHANGED <<devfsVars, mntVars, sysVars>>

NextReg ==
    \/ \E l \in DevLines : AppendDevLine(l)
    \/ \E i \in 1..MaxDevLines : RemoveDevLine(i)
    \/ ToggleReadable
    \/ \E id \in RegMajors : GetById(id)
    \/ \E name \in RegNames : GetByName(name)
    \/ \E ma \in DmMajors : IsType(makedev(ma, 0), N_device_mapper)
    \/ Refresh

SpecReg == InitReg /\ [][NextReg]_vars

(***************************************************************************)
(* The mount-table specification.                                          *)
(***************************************************************************)
InitMount == DevfsAtRest /\ RegAtRest /\ MntAtRest /\ SysAtRest

\* the ids of the entries the table's lines parse to
MountIds(lines) == {ParseOf[lines[i]].v.id : i \in {k \in 1..Len(lines) : ParseOf[lines[k]].ok}}

\* a line is added to the table; mount ids are unique
Mount(l) ==
    /\ Len(mtab) < MaxMounts
    /\ ParseOf[l].ok => ParseOf[l].v.id \notin MountIds(mtab)
    /\ mtab' = Append(mtab, l)
    /\ mres' = Idle
    /\ UNCHANGED <<devfsVars, regVars, sysVars>>

\* a line leaves the table
Umount(i) ==
    /\ i \in 1..Len(mtab)
    /\ mtab' = SubSeq(mtab, 1, i - 1) \o SubSeq(mtab, i + 1, Len(mtab))
    /\ mres' = Idle
    /\ UNCHANGED <<devfsVars, regVars, sysVars>>

\* the st_dev of a path on a file system (btrfs, overlay) whose stat shows a device
\* number other than the one its mount entry lists
D_anon == makedev(0, 40)

\* the devices a path of some mount can show
StatDevnos == {D_sda1, makedev(0, 20), makedev(0, 5), D_anon}

\* a call of ProcFs::mountinfo_from_path on a path of the mount that line `owner`
\* describes, where stat shows the device dev
MountinfoFromPath(owner, how, dev) ==
    /\ owner \in 1..Len(mtab)
    /\ ParseOf[mtab[owner]].ok
    /\ dev \in {ParseOf[mtab[owner]].v.dev, D_anon}
    /\ \E e \in {ParseOf[mtab[owner]].v} :
       \E sys \in {name_to_handle_at(e.id, how)} :
       \E r \in {mountinfo_from_path(mtab, Ok(dev), sys)} :
          mres' = [op |-> "mountinfo_from_path", owner |-> owner, how |-> how, dev |-> dev,
                   mount_id |-> mount_id_of(sys), result |-> r]
    /\ UNCHANGED mtab
    /\ UNCHANGED <<devfsVars, regVars, sysVars>>

\* a call of ProcFs::mountinfo_from_path on a path that does not exist
MountinfoFromNoPath ==
    /\ \E r \in {mountinfo_from_path(mtab, Err("NotFound"), name_to_handle_at(0, "EOPNOTSUPP"))} :
          mres' = [op |-> "mountinfo_from_path", owner |-> 0, how |-> "none", dev |-> NoDev,
                   mount_id |-> None, result |-> r]
    /\ UNCHANGED mtab
    /\ UNCHANGED <<devfsVars, regVars, sysVars>>

\* MountInfos::iter, drained by the caller
IterMounts ==
    /\ mres' = [op |-> "iter", items |-> MountInfos_iter(mtab)]
    /\ UNCHANGED mtab
    /\ UNCHANGED <<devfsVars, regVars, sysVars>>

\* SysFs::new, which is MountInfos::find with the sysfs predicate
LocateSysfs ==
    /\ \E r \in {SysFs_new(mtab)} : mres' = [op |-> "find", result |-> r]
    /\ UNCHANGED mtab
    /\ UNCHANGED <<devfsVars, regVars, sysVars>>

NextMount ==
    \/ \E l \in MountLines : Mount(l)
    \/ \E i \in 1..MaxMounts : Umount(i)
    \/ \E owner \in 1..MaxMounts, how \in SysOutcomes, dev \in StatDevnos :
          MountinfoFromPath(owner, how, dev)
    \/ MountinfoFromNoPath
    \/ IterMounts
    \/ LocateSysfs

SpecMount == InitMount /\ [][NextMount]_vars

(***************************************************************************)
(* The sysfs specification.                                                *)
(***************************************************************************)
InitSysfs == DevfsAtRest /\ RegAtRest /\ MntAtRest /\ SysAtRest

\* a block device appears (bare) or goes away
SetPresent(d) ==
    /\ sysfs' = [sysfs EXCEPT ![d] = IF @.present THEN NoNode
                                     ELSE BareNode(d)]
    /\ sres' = Idle
    /\ UNCHANGED <<devfsVars, regVars, mntVars>>

\* device-mapper gives the device a uuid, or takes it back
SetDmUuid(u) ==
    /\ sysfs[D_dm0].present
    /\ sysfs[D_dm0].uuid # u
    /\ sysfs' = [sysfs EXCEPT ![D_dm0].uuid = u]
    /\ sres' = Idle
    /\ UNCHANGED <<devfsVars, regVars, mntVars>>

\* the device's slaves/ directory is made, filled or removed
SetSlaves(s) ==
    /\ sysfs[D_dm0].present
    /\ sysfs[D_dm0].slaves # s
    /\ sysfs' = [sysfs EXCEPT ![D_dm0].slaves = s]
    /\ sres' = Idle
    /\ UNCHANGED <<devfsVars, regVars, mntVars>>

\* a call of Blocks::slaves(devno), the iterator drained
Slaves(d) ==
    /\ \E r \in {slaves(sysfs, d)} : sres' = [op |-> "slaves", devno |-> d, result |-> r]
    /\ UNCHANGED sysfs
    /\ UNCHANGED <<devfsVars, regVars, mntVars>>

\* a call of Blocks::is_luks(devno)
IsLuks(d) ==
    /\ \E r \in {is_luks(sysfs, d)} : sres' = [op |-> "is_luks", devno |-> d, result |-> r]
    /\ UNCHANGED sysfs
    /\ UNCHANGED <<devfsVars, regVars, mntVars>>

NextSysfs ==
    \/ \E d \in SysDevnos : SetPresent(d)
    \/ \E u \in {None} \cup {Some(x) : x \in DmUuids} : SetDmUuid(u)
    \/ \E s \in {None} \cup {Some(x) : x \in SlaveDirs} : SetSlaves(s)
    \/ \E d \in SysDevnos : Slaves(d)
    \/ \E d \in SysDevnos : IsLuks(d)

SpecSysfs == InitSysfs /\ [][NextSysfs]_vars

(***************************************************************************)
(* The device-mapper classification specification: the registry and sysfs  *)
(* together.                                                               *)
(***************************************************************************)
InitDm == DevfsAtRest /\ RegAtRest /\ MntAtRest /\ SysAtRest

\* the lines of the device list that matter to the classification
DmDevLines ==
    { <<"2", "5", "3", " ", "d", "e", "v", "i", "c", "e", "-", "m", "a", "p", "p", "e", "r">>,
      <<" ", " ", "8", " ", "s", "d">> }

\* the candidate lists is_dm_types is called with
CandidateLists == { <<T_crypt_luks>>, <<T_crypt_luks1, T_lvm_x>>, <<T_crypt_luks2, T_crypt_luks>> }

\* a call of Blocks::is_dm_types(devno, types)
IsDmTypes(d, types) ==
    /\ \E r \in {is_device_mapper(devfile, registry, d)} :
       \E t \in {dm_type(sysfs, d)} :
       \E v \in {is_dm_types(r, t, types)} :
          /\ UNCHANGED borrow
          /\ registry' = r.cache
          /\ sres' = [op |-> "is_dm_types", devno |-> d, types |-> types, result |-> v]
    /\ UNCHANGED <<devfile, rres, sysfs>>
    /\ UNCHANGED <<devfsVars, mntVars>>

\* a call of Blocks::is_luks2(devno)
IsLuks2(d) ==
    /\ \E r \in {is_device_mapper(devfile, registry, d)} :
       \E t \in {dm_type(sysfs, d)} :
       \E v \in {is_luks2(r, t)} :
          /\ UNCHANGED borrow
          /\ registry' = r.cache
          /\ sres' = [op |-> "is_luks2", devno |-> d, result |-> v]
    /\ UNCHANGED <<devfile, rres, sysfs>>
    /\ UNCHANGED <<devfsVars, mntVars>>

NextDm ==
    \/ \E l \in DmDevLines : AppendDevLine(l)
    \/ \E i \in 1..MaxDevLines : RemoveDevLine(i)
    \/ \E d \in SysDevnos : SetPresent(d)
    \/ \E u \in {None} \cup {Some(x) : x \in DmUuids} : SetDmUuid(u)
    \/ \E d \in SysDevnos, types \in CandidateLists : IsDmTypes(d, types)
    \/ \E d \in SysDevnos : IsLuks2(d)

SpecDm == InitDm /\ [][NextDm]_vars

(***************************************************************************)
(* The block enumeration specification: the entries of <sysfs>/dev/block.  *)
(***************************************************************************)
InitBlocks == DevfsAtRest /\ RegAtRest /\ MntAtRest /\ SysAtRest

\* the devices that have an entry in dev/block
Present(fs) == {d \in SysNodes : fs[d].present}

\* the orders read_dir can give the entries of that directory in
Orders(S) ==
    {o \in [1..Cardinality(S) -> S] : \A i, j \in 1..Cardinality(S) : i # j => o[i] # o[j]}

\* a device's dev attribute reads as something else
SetDevAttr(d, a) ==
    /\ sysfs[d].present
    /\ sysfs[d].dev # a
    /\ sysfs' = [sysfs EXCEPT ![d].dev = a]
    /\ sres' = Idle
    /\ UNCHANGED <<devfsVars, regVars, mntVars>>

\* a call of Blocks::blocks(), the iterator drained
EnumerateBlocks(order) ==
    /\ order \in Orders(Present(sysfs))
    /\ \E r \in {sysfs_blocks(sysfs, order)} :
          sres' = [op |-> "blocks", order |-> order, result |-> r]
    /\ UNCHANGED sysfs
    /\ UNCHANGED <<devfsVars, regVars, mntVars>>

NextBlocks ==
    \/ \E d \in SysDevnos : SetPresent(d)
    \/ \E d \in SysDevnos : \E a \in {DevAttrOf(d), A_bad} : SetDevAttr(d, a)
    \/ \E order \in UNION {Orders(S) : S \in SUBSET SysDevnos} : EnumerateBlocks(order)

SpecBlocks == InitBlocks /\ [][NextBlocks]_vars

(***************************************************************************)
(* The partition attribute specification: dm uuid grammar and the          *)
(* partition attribute file.                                               *)
(***************************************************************************)
InitPart == DevfsAtRest /\ RegAtRest /\ MntAtRest /\ SysAtRest

\* the partition attribute file of a device is written or removed
SetPartition(d, p) ==
    /\ sysfs[d].present
    /\ sysfs[d].partition # p
    /\ sysfs' = [sysfs EXCEPT ![d].partition = p]
    /\ sres' = Idle
    /\ UNCHANGED <<devfsVars, regVars, mntVars>>

\* a call of SysFs::dm_type(devno)
DmType(d) ==
    /\ \E r \in {dm_type(sysfs, d)} : sres' = [op |-> "dm_type", devno |-> d, result |-> r]
    /\ UNCHANGED sysfs
    /\ UNCHANGED <<devfsVars, regVars, mntVars>>

\* a call of SysFs::partition_number(devno)
PartitionNumber(d) ==
    /\ \E r \in {partition_number(sysfs, d)} :
          sres' = [op |-> "partition_number", devno |-> d, result |-> r]
    /\ UNCHANGED sysfs
    /\ UNCHANGED <<devfsVars, regVars, mntVars>>

\* a call of SysFs::is_partition(devno)
IsPartition(d) ==
    /\ \E r \in {is_partition(sysfs, d)} :
          sres' = [op |-> "is_partition", devno |-> d, result |-> r]
    /\ UNCHANGED sysfs
    /\ UNCHANGED <<devfsVars, regVars, mntVars>>

\* a call of SysFs::is_wholedisk(devno)
IsWholedisk(d) ==
    /\ \E r \in {is_wholedisk(sysfs, d)} :
          sres' = [op |-> "is_wholedisk", devno |-> d, result |-> r]
    /\ UNCHANGED sysfs
    /\ UNCHANGED <<devfsVars, regVars, mntVars>>

NextPart ==
    \/ \E d \in {D_sda1, D_dm0} : SetPresent(d)
    \/ \E u \in {None} \cup {Some(x) : x \in DmUuids \cup PartUuids} : SetDmUuid(u)
    \/ \E d \in {D_sda1, D_dm0}, p \in {None} \cup {Some(x) : x \in PartitionAttrs} :
          SetPartition(d, p)
    \/ \E d \in {D_sda1, D_dm0} : DmType(d)
    \/ \E d \in {D_sda1, D_dm0} : PartitionNumber(d)
    \/ \E d \in {D_sda1, D_dm0} : IsPartition(d)
    \/ \E d \in {D_sda1, D_dm0} : IsWholedisk(d)

SpecPart == InitPart /\ [][NextPart]_vars

(***************************************************************************)
(* The parent specification: partitions, LUKS devices and what they sit on.*)
(***************************************************************************)
InitParent == DevfsAtRest /\ RegAtRest /\ MntAtRest /\ SysAtRest

\* a call of Blocks::parent(devno)
Parent(d) ==
    /\ \E r \in {parent(sysfs, d)} : sres' = [op |-> "parent", devno |-> d, result |-> r]
    /\ UNCHANGED sysfs
    /\ UNCHANGED <<devfsVars, regVars, mntVars>>

NextParent ==
    \/ \E d \in SysDevnos : SetPresent(d)
    \/ \E u \in {None, Some(U_luks2), Some(U_part_luks1), Some(U_lvm), Some(U_part3_lvm)} :
          SetDmUuid(u)
    \/ \E s \in {None} \cup {Some(x) : x \in SlaveDirs} : SetSlaves(s)
    \/ \E d \in {D_sda1, D_dm0}, p \in {None, Some(P_1), Some(P_bad)} : SetPartition(d, p)
    \/ \E a \in {A_sda, A_bad} : SetDevAttr(D_sda, a)
    \/ \E d \in SysDevnos : Parent(d)

SpecParent == InitParent /\ [][NextParent]_vars

(***************************************************************************)
(* The partitions specification: a disk's directory and the registry.      *)
(***************************************************************************)
InitPartitions == DevfsAtRest /\ RegAtRest /\ MntAtRest /\ SysAtRest

\* the entries of a device's directory change
SetChildren(d, l) ==
    /\ sysfs[d].present
    /\ sysfs[d].children # l
    /\ sysfs' = [sysfs EXCEPT ![d].children = l]
    /\ sres' = Idle
    /\ UNCHANGED <<devfsVars, regVars, mntVars>>

\* a call of Blocks::partitions(devno), the iterator drained; order is the order
\* read_dir gives the entries of dev/block in
Partitions(d, order) ==
    /\ order \in Orders(Present(sysfs))
    /\ \E t \in {is_type(devfile, registry, d, N_device_mapper)} :
       \E r \in {partitions(t, sysfs, d, order)} :
          /\ UNCHANGED borrow
          /\ registry' = IF r.asked THEN t.cache ELSE registry
          /\ sres' = [op |-> "partitions", devno |-> d, order |-> order, result |-> r.result]
    /\ UNCHANGED <<devfile, rres, sysfs>>
    /\ UNCHANGED <<devfsVars, mntVars>>

NextPartitions ==
    \/ AppendDevLine(<<" ", " ", "8", " ", "s", "d">>)
    \/ \E i \in 1..MaxDevLines : RemoveDevLine(i)
    \/ SetPresent(D_sda)
    \/ \E l \in Listings : SetChildren(D_sda, l)
    \/ \E p \in {None, Some(P_1)} : SetPartition(D_sda, p)
    \/ \E order \in {<<>>, <<D_sda>>} : Partitions(D_sda, order)

SpecPartitions == InitPartitions /\ [][NextPartitions]_vars

(***************************************************************************)
(* The reverse scan specification: a LUKS device and what is mapped on it. *)
(***************************************************************************)
InitMasters == DevfsAtRest /\ RegAtRest /\ MntAtRest /\ SysAtRest

\* the slaves/ directories of a device mapped on dm-0 or on sda1
MasterSlaveDirs == UNION {[1..n -> {A_dm0, A_sda1}] : n \in 0..MaxSlaves}

\* device-mapper gives a device a uuid, or takes it back
SetDmUuidOf(d, u) ==
    /\ sysfs[d].present
    /\ sysfs[d].uuid # u
    /\ sysfs' = [sysfs EXCEPT ![d].uuid = u]
    /\ sres' = Idle
    /\ UNCHANGED <<devfsVars, regVars, mntVars>>

\* a device's slaves/ directory is made, filled or removed
SetSlavesOf(d, s) ==
    /\ sysfs[d].present
    /\ sysfs[d].slaves # s
    /\ sysfs' = [sysfs EXCEPT ![d].slaves = s]
    /\ sres' = Idle
    /\ UNCHANGED <<devfsVars, regVars, mntVars>>

NextMasters ==
    \/ AppendDevLine(<<"2", "5", "3", " ", "d", "e", "v", "i", "c", "e", "-", "m", "a", "p", "p", "e", "r">>)
    \/ \E i \in 1..MaxDevLines : RemoveDevLine(i)
    \/ \E d \in {D_sda1, D_dm0, D_dm1} : SetPresent(d)
    \/ \E u \in {None, Some(U_luks2)} : SetDmUuidOf(D_dm0, u)
    \/ \E u \in {None, Some(U_part_luks2)} : SetDmUuidOf(D_dm1, u)
    \/ \E s \in {None, Some(<<A_sda1>>)} : SetSlavesOf(D_dm0, s)
    \/ \E s \in {None} \cup {Some(x) : x \in MasterSlaveDirs} : SetSlavesOf(D_dm1, s)
    \/ \E p \in {None, Some(P_1)} : SetPartition(D_sda1, p)
    \/ \E a \in {A_dm1, A_bad} : SetDevAttr(D_dm1, a)
    \/ \E order \in UNION {Orders(S) : S \in SUBSET {D_sda1, D_dm0, D_dm1}} :
          Partitions(D_dm0, order)

SpecMasters == InitMasters /\ [][NextMasters]_vars

(***************************************************************************)
(* The path resolution specification: the registry, sysfs and devfs.       *)
(***************************************************************************)
InitResolve == DevfsAtRest /\ RegAtRest /\ MntAtRest /\ SysAtRest

\* device-mapper names the device, or the name goes away
SetDmName(d, n) ==
    /\ sysfs[d].present
    /\ sysfs[d].name # n
    /\ sysfs' = [sysfs EXCEPT ![d].name = n]
    /\ sres' = Idle
    /\ UNCHANGED <<devfsVars, regVars, mntVars>>

\* a call of Blocks::resolve(devno); lookup is what DevFs::resolve gives on the
\* state the call begins in. The answer is noted on the devfs side and the call
\* on the sysfs side, so that a change of either makes it a past answer
BlocksResolve(d) ==
    /\ \E t \in {is_device_mapper(devfile, registry, d)} :
       \E l \in {resolve(nodes, alias, cache, d)} :
       \E r \in {blocks_resolve(t, l, sysfs, nodes, cache, d)} :
          /\ UNCHANGED borrow
          /\ registry' = t.cache
          /\ cache' = r.cache
          /\ lastScan' = IF r.status = "Ok" /\ r.route = "scan"
                         THEN [lastScan EXCEPT ![d] = r.path]
                         ELSE lastScan
          /\ res' = [op |-> "blocks_resolve", devno |-> d, status |-> r.status,
                     path |-> r.path, route |-> r.route,
                     lookup |-> [status |-> l.status, path |-> l.path, cache |-> l.cache]]
          /\ sres' = [op |-> "blocks_resolve", devno |-> d]
    /\ UNCHANGED <<nodes, alias, devfile, rres, sysfs>>
    /\ UNCHANGED mntVars

NextResolve ==
    \/ \E l \in DmDevLines : AppendDevLine(l)
    \/ \E i \in 1..MaxDevLines : RemoveDevLine(i)
    \/ SetPresent(D_dm0)
    \/ \E n \in {None, Some(N_x), Some(N_y)} : SetDmName(D_dm0, n)
    \/ \E st \in {Absent, Other, Lnk(D_dm0)} : SetNode("/dev/mapper/x", st)
    \/ \E st \in {Absent, Blk(D_dm0), Blk(D_sda1)} : SetNode("/dev/sdb", st)
    \/ \E d \in {D_dm0, D_sda1} : BlocksResolve(d)

SpecResolve == InitResolve /\ [][NextResolve]_vars

(***************************************************************************)
(* The device number text specification: MAJOR:MINOR parsed and formatted. *)
(***************************************************************************)
\* numerals with the number they stand for; plain ones are what the kernel
\* writes: digits without sign or leading zero
Numerals ==
    { [text |-> <<"0">>, value |-> 0, plain |-> TRUE],
      [text |-> <<"8">>, value |-> 8, plain |-> TRUE],
      [text |-> <<"2", "5", "5">>, value |-> 255, plain |-> TRUE],
      [text |-> <<"2", "5", "6">>, value |-> 256, plain |-> TRUE],
      [text |-> <<"4", "0", "9", "5">>, value |-> 4095, plain |-> TRUE],
      [text |-> <<"4", "0", "9", "6">>, value |-> 4096, plain |-> TRUE],
      [text |-> <<"1", "0", "4", "8", "5", "7", "6">>, value |-> 1048576, plain |-> TRUE],
      [text |-> <<"2", "1", "4", "7", "4", "8", "3", "6", "4", "7">>, value |-> 2147483647, plain |-> TRUE],
      [text |-> <<"0", "8">>, value |-> 8, plain |-> FALSE],
      [text |-> <<"+", "8">>, value |-> 8, plain |-> FALSE],
      [text |-> <<"x">>, value |-> 0 - 1, plain |-> FALSE] }

\* a string MAJOR:MINOR is at hand
InitDevno ==
    /\ DevfsAtRest /\ RegAtRest /\ SysAtRest
    /\ mtab = <<>>
    /\ mres \in {[op |-> "devno_text", ma |-> a, mi |-> b,
                   text |-> a.text \o <<":">> \o b.text] : a \in Numerals, b \in Numerals}

\* the string is parsed; the Devno's major, minor and Display are taken
ParseDevno ==
    /\ mres.op = "devno_text"
    /\ \E r \in {Devno_from_str(mres.text)} :
          mres' = [op |-> "devno", ma |-> mres.ma, mi |-> mres.mi, text |-> mres.text,
                   parsed |-> r,
                   major |-> IF r.ok THEN major(r.v) ELSE 0 - 1,
                   minor |-> IF r.ok THEN minor(r.v) ELSE 0 - 1,
                   shown |-> IF r.ok THEN Devno_fmt(r.v) ELSE <<>>]
    /\ UNCHANGED mtab
    /\ UNCHANGED <<devfsVars, regVars, sysVars>>

NextDevno == ParseDevno

SpecDevno == InitDevno /\ [][NextDevno]_vars

(***************************************************************************)
(* The mount line text specification: a line parsed, formatted, parsed.    *)
(***************************************************************************)
\* what the parts of a line can read as, with what they stand for
LineIds ==
    { [text |-> <<"2", "1">>, value |-> 21],
      [text |-> <<"0", "2", "1">>, value |-> 21],
      [text |-> <<"+", "7">>, value |-> 7] }

LineDevs ==
    { [text |-> <<"8", ":", "1">>, value |-> makedev(8, 1)],
      [text |-> <<"0", ":", "2", "0">>, value |-> makedev(0, 20)],
      [text |-> <<"2", "5", "9", ":", "4", "0", "9", "6">>, value |-> makedev(259, 4096)] }

LineRoots == {<<"/">>, <<"/", "s", "r", "v", "\\", "0", "4", "0", "a">>}

LineFields == {<<>>, <<<<"s", "h", "a", "r", "e", "d", ":", "1">>>>, <<<<"s", "h", "a", "r", "e", "d", ":", "1">>, <<"m", "a", "s", "t", "e", "r", ":", "2">>>>}

LineSources ==
    { [text |-> T_none, value |-> None],
      [text |-> <<"/", "d", "e", "v", "/", "s", "d", "a", "1">>, value |-> Some(<<"/", "d", "e", "v", "/", "s", "d", "a", "1">>)],
      [text |-> T_sys, value |-> Some(T_sys)] }

\* the blanks between tokens, and what ends the line
LineGaps == {<<" ">>, <<" ", "\t">>}

\* tokens with a gap between them
RECURSIVE JoinTokens(_, _)
JoinTokens(toks, gap) ==
    IF Len(toks) <= 1 THEN (IF toks = <<>> THEN <<>> ELSE Head(toks))
    ELSE Head(toks) \o gap \o JoinTokens(Tail(toks), gap)

\* the line of these parts
LineOf(id, dev, root, fields, src, gap) ==
    JoinTokens(<<id.text, <<"1">>, dev.text, root, <<"/", "m", "n", "t">>, <<"r", "w", ",", "n", "o", "a", "t", "i", "m", "e">>>>
               \o fields
               \o <<T_dash, <<"e", "x", "t", "4">>, src.text, <<"r", "w">>>>, gap)

\* a line of the mount table is at hand
InitMountText ==
    /\ DevfsAtRest /\ RegAtRest /\ SysAtRest
    /\ mtab = <<>>
    /\ mres \in {[op |-> "mount_text", id |-> id, dev |-> dev, root |-> root,
                   fields |-> fields, src |-> src,
                   line |-> LineOf(id, dev, root, fields, src, gap)] :
                  id \in LineIds, dev \in LineDevs, root \in LineRoots,
                  fields \in LineFields, src \in LineSources, gap \in LineGaps}

\* the line is parsed, the entry formatted, and the text parsed again
ParseFormatParse ==
    /\ mres.op = "mount_text"
    /\ \E p \in {MountInfo_from_str(mres.line)} :
       \E t \in {IF p.ok THEN MountInfo_fmt(p.v) ELSE <<>>} :
       \E q \in {IF p.ok THEN MountInfo_from_str(t) ELSE p} :
          mres' = [op |-> "mount_round_trip", id |-> mres.id, dev |-> mres.dev,
                   root |-> mres.root, fields |-> mres.fields, src |-> mres.src,
                   line |-> mres.line, parsed |-> p, shown |-> t, reparsed |-> q]
    /\ UNCHANGED mtab
    /\ UNCHANGED <<devfsVars, regVars, sysVars>>

NextMountText == ParseFormatParse

SpecMountText == InitMountText /\ [][NextMountText]_vars

(***************************************************************************)
(* The path cache over a tree with hidden entries, shm and symbolic links. *)
(***************************************************************************)
\* what the environment puts into a slot the scan reaches
ScanNodeStates == {Absent, Blk(D_sda), Blk(D_sda1), Lnk(D_sda)}

\* what it puts under a hidden name or under shm
ExtraNodeStates == {Absent, Blk(D_sda)}

InitScan == DevfsAtRest /\ RegAtRest /\ MntAtRest /\ SysAtRest

\* a call of DevFs::resolve(devno), the alias directory being absent; the call
\* notes the cache it started from
Lookup(d) ==
    \E r \in {resolve(nodes, alias, cache, d)} :
        /\ cache' = r.cache
        /\ lastScan' = IF r.status = "Ok" /\ r.route = "scan"
                       THEN [lastScan EXCEPT ![d] = r.path]
                       ELSE lastScan
        /\ res' = [op |-> "lookup", devno |-> d, status |-> r.status, path |-> r.path,
                   route |-> r.route, before |-> cache]
        /\ UNCHANGED <<nodes, alias>>
        /\ UNCHANGED <<regVars, mntVars, sysVars>>

NextScan ==
    \/ \E p \in MainSlots, st \in ScanNodeStates : SetNode(p, st)
    \/ \E p \in ExtraSlots, st \in ExtraNodeStates : SetNode(p, st)
    \/ \E d \in DevfsDevnos : Lookup(d)

SpecScan == InitScan /\ [][NextScan]_vars

(***************************************************************************)
(* The registry used by a caller that keeps what it is handed.             *)
(***************************************************************************)
BorrowDevLines == { <<" ", " ", "8", " ", "s", "d">>, <<" ", "6", "5", " ", "s", "d">> }

InitBorrow == DevfsAtRest /\ RegAtRest /\ MntAtRest /\ SysAtRest

\* get_by_id(id), the Ref of a hit kept alive
KeepById(id) ==
    /\ Live(borrow) < MaxHeld
    /\ \E r \in {Devices_get_by_id(devfile, registry, borrow, id)} :
          /\ registry' = r.cache
          /\ borrow' = IF r.ref THEN [borrow EXCEPT !.refs = @ + 1] ELSE borrow
          /\ rres' = [op |-> "keep_by_id", status |-> r.status, live |-> Live(borrow)]
    /\ UNCHANGED devfile
    /\ UNCHANGED <<devfsVars, mntVars, sysVars>>

\* get_by_name(name), the Ref of a hit kept alive
KeepByName(name) ==
    /\ Live(borrow) < MaxHeld
    /\ \E r \in {Devices_get_by_name(devfile, registry, borrow, name)} :
          /\ registry' = r.cache
          /\ borrow' = IF r.ref THEN [borrow EXCEPT !.refs = @ + 1] ELSE borrow
          /\ rres' = [op |-> "keep_by_name", status |-> r.status, live |-> Live(borrow)]
    /\ UNCHANGED devfile
    /\ UNCHANGED <<devfsVars, mntVars, sysVars>>

\* refresh() while the caller keeps what it holds
RefreshKept ==
    /\ \E r \in {Devices_refresh(devfile, registry, borrow)} :
          /\ registry' = r.cache
          /\ rres' = [op |-> "refresh_kept", status |-> r.status, live |-> Live(borrow)]
    /\ UNCHANGED <<devfile, borrow>>
    /\ UNCHANGED <<devfsVars, mntVars, sysVars>>

\* Devices::iter: the DevicesIter holds a Ref of its own
Iter ==
    /\ Live(borrow) < MaxHeld
    /\ borrow' = [borrow EXCEPT !.iters = Append(@, 1)]
    /\ rres' = [op |-> "iter", status |-> "Ok", live |-> Live(borrow)]
    /\ UNCHANGED <<devfile, registry>>
    /\ UNCHANGED <<devfsVars, mntVars, sysVars>>

\* DevicesIter::next on the i-th live iterator: an item carries a clone of the Ref
IterNext(i) ==
    /\ i \in 1..Len(borrow.iters)
    /\ borrow.iters[i] <= Items(registry)
    /\ Live(borrow) < MaxHeld
    /\ borrow' = [refs |-> borrow.refs + 1,
                  iters |-> [borrow.iters EXCEPT ![i] = @ + 1]]
    /\ rres' = [op |-> "next", status |-> "Ok", live |-> Live(borrow)]
    /\ UNCHANGED <<devfile, registry>>
    /\ UNCHANGED <<devfsVars, mntVars, sysVars>>

\* the caller lets go of a Ref
DropRef ==
    /\ borrow.refs > 0
    /\ borrow' = [borrow EXCEPT !.refs = @ - 1]
    /\ UNCHANGED <<devfile, registry, rres>>
    /\ UNCHANGED <<devfsVars, mntVars, sysVars>>

\* the caller lets go of the i-th DevicesIter
DropIter(i) ==
    /\ i \in 1..Len(borrow.iters)
    /\ borrow' = [borrow EXCEPT !.iters =
                      SubSeq(@, 1, i - 1) \o SubSeq(@, i + 1, Len(@))]
    /\ UNCHANGED <<devfile, registry, rres>>
    /\ UNCHANGED <<devfsVars, mntVars, sysVars>>

NextBorrow ==
    \/ \E l \in BorrowDevLines : AppendDevLine(l)
    \/ \E i \in 1..MaxDevLines : RemoveDevLine(i)
    \/ ToggleReadable
    \/ \E id \in RegMajors : KeepById(id)
    \/ \E name \in RegNames : KeepByName(name)
    \/ RefreshKept
    \/ Iter
    \/ \E i \in 1..MaxHeld : IterNext(i)
    \/ DropRef
    \/ \E i \in 1..MaxHeld : DropIter(i)

SpecBorrow == InitBorrow /\ [][NextBorrow]_vars

(***************************************************************************)
(* Claims about the device-type registry.                                  *)
(***************************************************************************)
\* a line of the block section that reads "major name"
WellFormedDevLine(l) ==
    /\ Len(split_whitespace(l)) = 2
    /\ parse_int(split_whitespace(l)[1]) # ParseErr

\* the device list can be read and every line of its block section is well formed
DevListWellFormed ==
    /\ devfile.readable
    /\ \A i \in 1..Len(BlockSection(devfile)) : WellFormedDevLine(BlockSection(devfile)[i])

\* the lines of the block section that name major id
LinesOfMajor(id) ==
    {i \in 1..Len(BlockSection(devfile)) :
        parse_int(split_whitespace(BlockSection(devfile)[i])[1]) = id}

\* the driver name the device list now gives major id (its last line wins)
ListedName(id) ==
    IF LinesOfMajor(id) = {} THEN None
    ELSE LET last == CHOOSE i \in LinesOfMajor(id) : \A j \in LinesOfMajor(id) : j <= i
         IN  Some(to_lowercase(split_whitespace(BlockSection(devfile)[last])[2]))

\* the majors the snapshot maps to name
MajorsNamed(name) ==
    {m \in DOMAIN registry.by_id : DevicesCache_get_by_id(registry, m) = Some(name)}

\* C2: get_by_name(name) returns exactly the set of majors the snapshot maps
\* to name: the forward and the reverse index describe the same relation.
C2_ReverseIndexIsForwardIndex ==
    (rres.op = "get_by_name" /\ rres.status = "Ok") =>
        IF MajorsNamed(rres.arg) = {}
        THEN ~rres.majors.some \/ rres.majors.v = {}
        ELSE rres.majors = Some(MajorsNamed(rres.arg))

\* C8: a lookup that hits does not refresh; a lookup that misses refreshes
\* exactly once and retries exactly once, a second miss being Ok(None); no
\* lookup refreshes twice.  (A refresh that fails ends the lookup with its
\* error, before any retry.)
C8_OneRefreshOneRetry ==
    rres.op \in {"get_by_id", "get_by_name"} =>
        /\ rres.refreshes <= 1
        /\ rres.firstHit =>
              /\ rres.refreshes = 0
              /\ rres.probes = 1
              /\ rres.status = "Ok"
        /\ ~rres.firstHit =>
              /\ rres.refreshes = 1
              /\ rres.status = "Ok" => rres.probes = 2
              /\ rres.status # "Ok" => (rres.probes = 1 /\ ~DevListWellFormed)
              /\ DevListWellFormed => rres.status = "Ok"
        /\ (rres.op = "get_by_id" /\ rres.status = "Ok" /\ rres.id \notin DOMAIN registry.by_id)
              => rres.name = None

\* a miss, a refresh, a retry that misses too: Ok(None)
W_C8_SecondMiss ==
    /\ rres.op = "get_by_id"
    /\ ~rres.firstHit
    /\ rres.refreshes = 1
    /\ rres.probes = 2
    /\ rres.status = "Ok"
    /\ rres.name = None
    /\ registry.names # <<>>

\* C9: after the device list changes or drops the name of a major, get_by_id
\* and is_type do not answer with the old name: the name they give is the one
\* the list gives that major now.
C9_NeverTheOldName ==
    (rres.op \in {"get_by_id", "is_type"} /\ rres.status = "Ok" /\ DevListWellFormed)
        => rres.name = ListedName(rres.id)

(***************************************************************************)
(* Claims about the devfs path cache.                                      *)
(***************************************************************************)
\* C1: every path DevFs::resolve returns successfully denotes, when it is
\* returned, an existing block-device node whose live number is the devno
\* asked for, whichever route (alias, memoized entry, rescan) produced it.
C1_ResolvedPathDenotesDevno ==
    (res.op = "resolve" /\ res.status = "Ok") => Denotes(nodes, res.path, res.devno)

\* the alias <devfs>/blocks/<major:minor> is present and currently a block device
AliasUsable(d) == alias[d] # NoPath /\ is_block_device(nodes, alias[d])

\* C5: the alias is used only if it is present and a block device; in every
\* other case the lookup falls through to the memoized entry and the rescan
\* and does not fail because of the alias.
C5_AliasElseFallThrough ==
    res.op = "resolve" =>
        /\ res.route = "alias" => AliasUsable(res.devno)
        /\ ~AliasUsable(res.devno) =>
              /\ res.route \in {"cache", "scan"}
              /\ res.status \in {"Ok", "NotFound"}

\* C10: once a scan has returned (devno, path), a later lookup of devno does
\* not rescan while path still is a block device numbered devno; a memoized
\* entry that stopped denoting devno is evicted and the tree rescanned.
C10_NoRescanWhileValid ==
    res.op = "resolve" =>
        /\ res.scanPathValid => ~res.rescanned
        /\ (res.route # "alias" /\ res.hadEntry /\ ~res.entryValid) =>
              (res.evicted /\ res.rescanned)

(***************************************************************************)
(* Claims about the mount table.                                           *)
(***************************************************************************)
\* C3: when the path's owning mount id is obtainable, mountinfo_from_path returns
\* the entry whose id is that mount id; an entry that only shares the path's
\* device number is returned only when the mount id is unavailable.
C3_MountIdIsAuthoritative ==
    (mres.op = "mountinfo_from_path" /\ mres.result.ok /\ mres.mount_id.some)
        => mres.result.v = ParseOf[mtab[mres.owner]].v

\* C4: parsing never panics: every malformed line, the empty and the blank one
\* included, is an InvalidData item of the iterator, and an InvalidData error of
\* find() when find() reads it first.
C4_MalformedLineIsInvalidData ==
    /\ mres.op = "iter" =>
          \A i \in 1..Len(mtab) :
              mtab[i] \in BadMountLines =>
                  (i <= Len(mres.items) /\ mres.items[i] = Err("InvalidData"))
    /\ (mres.op = "find" /\ mtab # <<>> /\ mtab[1] \in BadMountLines) =>
          mres.result = Err("InvalidData")

\* every line of the table is one the kernel writes
TableParses == \A i \in 1..Len(mtab) : mtab[i] \in GoodMountLines

\* the lines whose entry has this device number
DevOnly(dev) == {i \in 1..Len(mtab) : ParseOf[mtab[i]].v.dev = dev}

\* the entry of the first of these lines, NotFound when there is none
FirstOf(lines) ==
    IF lines = {} THEN Err("NotFound")
    ELSE Ok(ParseOf[mtab[CHOOSE i \in lines : \A j \in lines : i <= j]].v)

LuksOverSda1 ==
    /\ sysfs[D_dm0].present
    /\ sysfs[D_dm0].uuid = Some(U_luks2)
    /\ sysfs[D_dm0].slaves = Some(<<A_sda1>>)

\* C6 as stated: on dm-0, LUKS, with slaves/ listing sda1, slaves_of(dm-0) yields sda1.
C6_LuksSlavesYieldSda1 ==
    (sres.op = "slaves" /\ sres.devno = D_dm0 /\ LuksOverSda1)
        => sres.result = Ok(<<Ok(D_sda1)>>)

\* C6: on dm-0, LUKS, with slaves/ listing sda1, is_luks(dm-0) is true and
\* slaves_of(dm-0) yields nothing.
C6_LuksSlavesYieldNothing ==
    /\ (sres.op = "slaves" /\ sres.devno = D_dm0 /\ LuksOverSda1) => sres.result = Ok(<<>>)
    /\ (sres.op = "is_luks" /\ sres.devno = D_dm0 /\ LuksOverSda1) => sres.result = Ok(TRUE)

W_C6_LuksSlavesAsked ==
    sres.op = "slaves" /\ sres.devno = D_dm0 /\ LuksOverSda1 /\ sres.result = Ok(<<>>)

\* the uuids of the LUKS devices, and of the device-mapper devices that are not
LuksUuids == {U_luks2, U_part_luks1}

PlainUuids == {U_lvm}

\* the device number a dev attribute holds
DevnoOfAttr(a) ==
    CASE a = A_sda1 -> Ok(D_sda1)
      [] a = A_sda -> Ok(D_sda)
      [] OTHER -> Err("InvalidData")

\* C7: slaves_of(devno) is empty for a LUKS device whatever its slaves/ directory
\* holds; for a device that is not LUKS it has one item for each entry of slaves/,
\* in order, the device number that entry's dev attribute holds (InvalidData where
\* it holds none), and it is empty when there is no slaves/ directory.
C7_SlavesOf ==
    (sres.op = "slaves" /\ sysfs[sres.devno].present) =>
        LET n == sysfs[sres.devno]
        IN  /\ (n.uuid.some /\ n.uuid.v \in LuksUuids) => sres.result = Ok(<<>>)
            /\ (~n.uuid.some \/ n.uuid.v \in PlainUuids) =>
                  sres.result =
                      Ok(IF n.slaves.some
                         THEN [i \in 1..Len(n.slaves.v) |-> DevnoOfAttr(n.slaves.v[i])]
                         ELSE <<>>)

W_C7_TwoSlaves ==
    /\ sres.op = "slaves"
    /\ sres.devno = D_dm0
    /\ sysfs[D_dm0].uuid = Some(U_lvm)
    /\ sysfs[D_dm0].slaves = Some(<<A_sda1, A_sda>>)
    /\ sres.result = Ok(<<Ok(D_sda1), Ok(D_sda)>>)

(***************************************************************************)
(* Claims about the device-mapper classification.                          *)
(***************************************************************************)
\* the name the registry's snapshot has for a major, None when it has none
SnapshotName(id) ==
    IF id \in DOMAIN registry.by_id THEN Some(registry.names[registry.by_id[id]]) ELSE None

\* the type a dm uuid stands for: its first two segments after a leading part<N>
TypeOfUuid(u) ==
    CASE u = Some(U_luks2) -> Some(T_crypt_luks2)
      [] u = Some(U_part_luks1) -> Some(T_crypt_luks1)
      [] u = Some(U_lvm) -> Some(T_lvm_x)
      [] OTHER -> None

\* devno is device-mapper for the registry and its dm type is, whole, one of these
DmOfType(d, types) ==
    /\ SnapshotName(major(d)) = Some(N_device_mapper)
    /\ sysfs[d].present
    /\ TypeOfUuid(sysfs[d].uuid).some
    /\ \E i \in 1..Len(types) : types[i] = TypeOfUuid(sysfs[d].uuid).v

\* C12: is_dm_types(devno, candidates) is true exactly when the registry
\* classifies devno's major as device-mapper and dm_type(devno) is, as a whole
\* string, one of the candidates (CRYPT-LUKS does not match CRYPT-LUKS2);
\* is_luks2 is this with the one candidate CRYPT-LUKS2.
C12_DmTypeMembership ==
    /\ sres.op = "is_dm_types" =>
          (sres.result = Ok(TRUE) <=> DmOfType(sres.devno, sres.types))
    /\ sres.op = "is_luks2" =>
          (sres.result = Ok(TRUE) <=> DmOfType(sres.devno, <<T_crypt_luks2>>))

\* a LUKS2 device asked about the candidate CRYPT-LUKS alone: false
W_C12_PrefixIsNoMatch ==
    /\ sres.op = "is_dm_types"
    /\ sres.types = <<T_crypt_luks>>
    /\ SnapshotName(major(sres.devno)) = Some(N_device_mapper)
    /\ sysfs[sres.devno].uuid = Some(U_luks2)
    /\ sres.result = Ok(FALSE)

(***************************************************************************)
(* Claims about the block enumeration.                                     *)
(***************************************************************************)
\* C13: when an entry of dev/block has a malformed dev attribute, the sequence
\* of enumerate_all_blocks yields an InvalidData error and that error is its
\* final item: nothing, Ok or Err, comes after it.
C13_InvalidDataIsFinal ==
    sres.op = "blocks" =>
        \A i \in 1..Len(sres.result) :
            sres.result[i] = Err("InvalidData") => i = Len(sres.result)

(***************************************************************************)
(* Claims about the dm uuid grammar and the partition number.              *)
(***************************************************************************)
T_lvm_xyz == <<"L", "V", "M", "-", "x", "y", "z">>

\* the type each uuid stands for: the two segments after an optional leading
\* segment that begins with part; InvalidData when they are not both there
DmTypeTable(u) ==
    CASE u = U_luks2 -> Ok(Some(T_crypt_luks2))
      [] u = U_part_luks2 -> Ok(Some(T_crypt_luks2))
      [] u = U_part_luks1 -> Ok(Some(T_crypt_luks1))
      [] u = U_lvm -> Ok(Some(T_lvm_x))
      [] u = U_part3_lvm -> Ok(Some(T_lvm_xyz))
      [] u = U_partx_lvm -> Ok(Some(T_lvm_x))
      [] u \in {U_short, U_empty, U_part_only, U_part_short} -> Err("InvalidData")

\* C18: dm_type(devno) splits the dm uuid on '-', skips a first segment that
\* begins with part, and gives the next segment joined by '-' with the one
\* after it; a uuid with too few segments (the empty one too) is InvalidData;
\* no dm/uuid file gives None.
C18_DmTypeOfUuid ==
    (sres.op = "dm_type" /\ sysfs[sres.devno].present) =>
        sres.result = IF sysfs[sres.devno].uuid.some
                      THEN DmTypeTable(sysfs[sres.devno].uuid.v)
                      ELSE Ok(None)

\* part1-CRYPT-LUKS2-a gave CRYPT-LUKS2
W_C18_PartSegmentSkipped ==
    /\ sres.op = "dm_type"
    /\ sysfs[sres.devno].uuid = Some(U_part_luks2)
    /\ sres.result = Ok(Some(T_crypt_luks2))

\* the integer a partition attribute file holds
PartitionAttrTable(p) ==
    CASE p = P_1 -> Ok(Some(1))
      [] p = P_2 -> Ok(Some(2))
      [] p = P_bad -> Err("InvalidData")

\* the integer between a leading part and the first '-' of a uuid
UuidNumberTable(u) ==
    CASE u \in {U_part_luks1, U_part_luks2, U_part_only, U_part_short} -> Ok(Some(1))
      [] u = U_part3_lvm -> Ok(Some(3))
      [] u = U_partx_lvm -> Err("InvalidData")
      [] u \in {U_luks2, U_lvm, U_short, U_empty} -> Ok(None)

\* the partition number of a present node
NumberOf(node) ==
    IF node.partition.some THEN PartitionAttrTable(node.partition.v)
    ELSE IF node.uuid.some THEN UuidNumberTable(node.uuid.v)
    ELSE Ok(None)

\* C19: partition_number(devno) is the integer in the partition attribute file
\* when that file exists (the dm uuid is not consulted); otherwise, when a dm
\* uuid exists and begins with part, the integer between part and the first
\* '-'; otherwise None. Non-integer content in either place is InvalidData.
\* is_partition and is_wholedisk are the presence and the absence of the number.
C19_PartitionNumber ==
    (sres.op \in {"partition_number", "is_partition", "is_wholedisk"}
        /\ sysfs[sres.devno].present) =>
        \E n \in {NumberOf(sysfs[sres.devno])} :
            /\ sres.op = "partition_number" => sres.result = n
            /\ sres.op = "is_partition" =>
                  sres.result = IF n.ok THEN Ok(n.v.some) ELSE n
            /\ sres.op = "is_wholedisk" =>
                  sres.result = IF n.ok THEN Ok(~n.v.some) ELSE n

\* a partition attribute of 2 on a device whose uuid says part1: the answer is 2
W_C19_AttributeBeforeUuid ==
    /\ sres.op = "partition_number"
    /\ sysfs[sres.devno].partition = Some(P_2)
    /\ sysfs[sres.devno].uuid = Some(U_part_luks1)
    /\ sres.result = Ok(Some(2))

(***************************************************************************)
(* Claims about parent.                                                    *)
(***************************************************************************)
\* the node is a LUKS device whose partition number, if any, reads well
LuksNode(node) ==
    /\ node.present
    /\ node.uuid \in {Some(U_luks2), Some(U_part_luks1)}
    /\ node.partition \in {None, Some(P_1)}

\* C14: parent_of(devno) for a LUKS device, with or without a partition
\* number, is Some of the first entry of its slaves/ directory, and fails with
\* NotFound, never Ok(None), when slaves/ is empty.
C14_LuksParentIsFirstSlave ==
    (sres.op = "parent" /\ LuksNode(sysfs[sres.devno])) =>
        /\ sres.result # Ok(None)
        /\ sysfs[sres.devno].slaves = Some(<<>>) => sres.result = Err("NotFound")
        /\ (sysfs[sres.devno].slaves.some /\ sysfs[sres.devno].slaves.v # <<>>) =>
              \E f \in {DevnoOfAttr(sysfs[sres.devno].slaves.v[1])} :
                  sres.result = IF f.ok THEN Ok(Some(f.v)) ELSE f

\* a LUKS partition with slaves sda1 then sda: the parent is sda1
W_C14_FirstOfTwo ==
    /\ sres.op = "parent"
    /\ sysfs[sres.devno].uuid = Some(U_part_luks1)
    /\ sysfs[sres.devno].slaves = Some(<<A_sda1, A_sda>>)
    /\ sres.result = Ok(Some(D_sda1))

\* the node is not a LUKS device
PlainNode(node) == node.present /\ node.uuid \in {None, Some(U_lvm), Some(U_part3_lvm)}

\* the node has a partition number that reads well, or has none at all
Numbered(node) ==
    node.partition = Some(P_1) \/ (node.partition = None /\ node.uuid = Some(U_part3_lvm))

Unnumbered(node) == node.partition = None /\ node.uuid \in {None, Some(U_lvm)}

\* C15: parent_of(devno) for a device that is not LUKS: with a partition
\* number, the Devno parsed from the dev attribute of the directory one level
\* above the device's sysfs node (InvalidData if it does not parse); for a
\* whole disk, None.
C15_PlainParentIsAbove ==
    (sres.op = "parent" /\ PlainNode(sysfs[sres.devno])) =>
        /\ Unnumbered(sysfs[sres.devno]) => sres.result = Ok(None)
        /\ (Numbered(sysfs[sres.devno]) /\ sres.devno = D_sda1 /\ sysfs[D_sda].present) =>
              \E f \in {DevnoOfAttr(sysfs[D_sda].dev)} :
                  sres.result = IF f.ok THEN Ok(Some(f.v)) ELSE f

\* the partition sda1 asked for its parent: sda
W_C15_PartitionOfSda ==
    /\ sres.op = "parent" /\ sres.devno = D_sda1
    /\ PlainNode(sysfs[D_sda1]) /\ sysfs[D_sda1].partition = Some(P_1)
    /\ sres.result = Ok(Some(D_sda))

(***************************************************************************)
(* Claims about partitions.                                                *)
(***************************************************************************)
\* the entries of a listing that are directories with a partition marker
Marked(l) == {i \in 1..Len(l) : l[i].dir /\ l[i].partition}

\* the place of a marked entry among the marked ones
Rank(l, i) == Cardinality({j \in Marked(l) : j <= i})

\* the device number a partition's dev attribute holds
PartitionDevno(a) ==
    CASE a = A_sda1 -> Ok(D_sda1)
      [] a = A_sda2 -> Ok(D_sda2)
      [] a = A_bad -> Err("InvalidData")

\* the device is a whole disk that the registry does not call device-mapper
PlainDisk(d) ==
    /\ sysfs[d].present
    /\ sysfs[d].partition = None /\ sysfs[d].uuid = None
    /\ SnapshotName(major(d)) = Some(N_sd)

\* C16: partitions_of(d) for a whole disk that is not device-mapper has one
\* item for each child directory of d's node that holds a partition marker
\* file and none for any other child; each item is the Devno in that child's
\* own dev attribute, InvalidData where it does not parse.
C16_OneItemPerMarkedChild ==
    (sres.op = "partitions" /\ PlainDisk(sres.devno)) =>
        /\ sres.result.ok
        /\ Len(sres.result.v) = Cardinality(Marked(sysfs[sres.devno].children))
        /\ \A i \in Marked(sysfs[sres.devno].children) :
              sres.result.v[Rank(sysfs[sres.devno].children, i)]
                  = PartitionDevno(sysfs[sres.devno].children[i].dev.v)

\* a directory that is no partition next to a partition: one item
W_C16_OtherChildSkipped ==
    /\ sres.op = "partitions" /\ PlainDisk(sres.devno)
    /\ sysfs[sres.devno].children = <<E_holder, E_sda1>>
    /\ sres.result = Ok(<<Ok(D_sda1)>>)

\* the device number an entry of dev/block gives
ScanDevno(a) ==
    CASE a = A_sda1 -> Ok(D_sda1)
      [] a = A_dm0 -> Ok(D_dm0)
      [] a = A_dm1 -> Ok(D_dm1)
      [] a = A_bad -> Err("InvalidData")

\* the device is a whole disk, device-mapper for the registry, and LUKS
LuksDisk(d) ==
    /\ sysfs[d].present
    /\ sysfs[d].partition = None /\ sysfs[d].uuid = Some(U_luks2)
    /\ SnapshotName(major(d)) = Some(N_device_mapper)

\* what the scan owes for the i-th entry of dev/block: the device when its
\* parent is d, the error when its enumeration or its parent fails, else nothing
Owed(d, order, i) ==
    IF ~ScanDevno(sysfs[order[i]].dev).ok THEN Some(ScanDevno(sysfs[order[i]].dev))
    ELSE IF ~parent(sysfs, ScanDevno(sysfs[order[i]].dev).v).ok
         THEN Some(parent(sysfs, ScanDevno(sysfs[order[i]].dev).v))
    ELSE IF parent(sysfs, ScanDevno(sysfs[order[i]].dev).v) = Ok(Some(d))
         THEN Some(ScanDevno(sysfs[order[i]].dev))
    ELSE None

\* the place of an owed item among the owed ones
OwedRank(d, order, i) == Cardinality({j \in 1..i : Owed(d, order, j).some})

\* C17: partitions_of(d) for a whole-disk, device-mapper, LUKS device d yields
\* exactly the block devices x enumerated from dev/block for which
\* parent_of(x) = Some(d): each such x is yielded, no x with another or no
\* parent is, and an error from parent_of(x) is an Err item.
C17_ReverseScan ==
    (sres.op = "partitions" /\ LuksDisk(sres.devno)) =>
        /\ sres.result.ok
        /\ Len(sres.result.v) =
              Cardinality({i \in 1..Len(sres.order) : Owed(sres.devno, sres.order, i).some})
        /\ \A i \in 1..Len(sres.order) :
              Owed(sres.devno, sres.order, i).some =>
                  sres.result.v[OwedRank(sres.devno, sres.order, i)]
                      = Owed(sres.devno, sres.order, i).v

\* dm-1 sits on dm-0 and sda1 does not: the scan of dm-0 gives dm-1 alone
W_C17_OnlyTheMappedOne ==
    /\ sres.op = "partitions" /\ LuksDisk(sres.devno)
    /\ Len(sres.order) = 3
    /\ sysfs[D_dm0].slaves = Some(<<A_sda1>>)
    /\ sres.result = Ok(<<Ok(D_dm1)>>)

(***************************************************************************)
(* Claims about Blocks::resolve.                                           *)
(***************************************************************************)
\* the device is device-mapper for the registry and sysfs has this name for it
MappedAs(d, n) ==
    /\ SnapshotName(major(d)) = Some(N_device_mapper)
    /\ sysfs[d].present /\ sysfs[d].name = Some(n)

\* C20: resolve_path(devno) returns <devfs>/mapper/<dm name> when devno is
\* device-mapper-backed and that path exists; when devno is not device-mapper,
\* or the path does not exist, the result is that of DevfsPathCache
\* lookup(devno), cache included.
C20_MapperElseLookup ==
    (res.op = "blocks_resolve" /\ sres.op = "blocks_resolve") =>
        /\ (MappedAs(res.devno, N_x) /\ nodes["/dev/mapper/x"] # Absent) =>
              (res.status = "Ok" /\ res.path = "/dev/mapper/x")
        /\ (\/ SnapshotName(major(res.devno)) = Some(N_sd)
            \/ MappedAs(res.devno, N_y)
            \/ (MappedAs(res.devno, N_x) /\ nodes["/dev/mapper/x"] = Absent)) =>
              /\ res.status = res.lookup.status
              /\ res.path = res.lookup.path
              /\ cache = res.lookup.cache

\* dm-0 is named x, /dev/mapper/x is gone: the path comes from the scan
W_C20_FallsBackToLookup ==
    /\ res.op = "blocks_resolve" /\ sres.op = "blocks_resolve"
    /\ MappedAs(res.devno, N_x) /\ nodes["/dev/mapper/x"] = Absent
    /\ res.status = "Ok" /\ res.path = "/dev/sdb"

(***************************************************************************)
(* Claims about device numbers in text.                                    *)
(***************************************************************************)
\* C22 as stated: every string MAJOR:MINOR that parses gives back, formatted,
\* the identical string.
C22_EveryStringComesBack ==
    (mres.op = "devno" /\ mres.parsed.ok) => mres.shown = mres.text

\* C22: for a string MAJOR:MINOR that parses as a Devno, major() and minor()
\* are the parsed numbers; formatting gives the two numbers in plain decimal,
\* which is the identical string when MAJOR and MINOR are written without
\* sign or leading zero.
C22_PlainStringComesBack ==
    (mres.op = "devno" /\ mres.parsed.ok) =>
        /\ mres.major = mres.ma.value /\ mres.minor = mres.mi.value
        /\ (mres.ma.plain /\ mres.mi.plain) => mres.shown = mres.text
        /\ \E a \in Numerals, b \in Numerals :
              /\ a.plain /\ b.plain
              /\ a.value = mres.ma.value /\ b.value = mres.mi.value
              /\ mres.shown = a.text \o <<":">> \o b.text

\* 4096:256, beyond the 12 and 8 low bits, came back
W_C22_HighBits ==
    /\ mres.op = "devno" /\ mres.parsed.ok
    /\ mres.ma.value = 4096 /\ mres.mi.value = 256
    /\ mres.shown = mres.text

(***************************************************************************)
(* Claims about mount lines in text.                                       *)
(***************************************************************************)
\* C21: parsing a canonical mountinfo line and formatting the entry again keeps
\* id, parent_id, device number, root and mount point (a source none is held
\* as absent and written back as none): parsing the formatted text gives the
\* entry the line gave, field by field.
C21_ParseFormatParse ==
    mres.op = "mount_round_trip" =>
        /\ mres.parsed.ok
        /\ mres.parsed.v.id = mres.id.value /\ mres.parsed.v.parent_id = 1
        /\ mres.parsed.v.dev = mres.dev.value
        /\ mres.parsed.v.root = mres.root
        /\ mres.parsed.v.fields = mres.fields
        /\ mres.parsed.v.source = mres.src.value
        /\ mres.reparsed = mres.parsed
        /\ mres.src.text = T_none =>
              split_whitespace(mres.shown)[Len(split_whitespace(mres.shown)) - 1] = T_none

\* a line with source none and two optional fields went round
W_C21_NoneAndFields ==
    /\ mres.op = "mount_round_trip"
    /\ mres.src.text = T_none /\ Len(mres.fields) = 2
    /\ mres.parsed.ok /\ mres.parsed.v.source = None
    /\ mres.reparsed = mres.parsed

(***************************************************************************)
(* Claims about the registry snapshot.                                     *)
(***************************************************************************)
\* the major -> name mapping a snapshot holds
Forward(c) == [id \in DOMAIN c.by_id |-> c.names[c.by_id[id]]]

\* the major -> lower-cased name mapping one complete read of the block section
\* gives, as the device list now stands
ListedMapping == [id \in {x \in RegMajors : ListedName(x).some} |-> ListedName(id).v]

\* C23: the snapshot starts empty and every step either leaves it as it was (any
\* refresh that fails does: the list unreadable or a line malformed) or replaces
\* it by exactly the major -> lower-cased name mapping of one complete read of
\* the block section, so a major absent from the new read is dropped.
C23_SnapshotIsOneRead ==
    /\ registry = DevicesCache_new
    /\ [][\/ registry' = registry
           \/ /\ DevListWellFormed
              /\ Forward(registry') = ListedMapping]_vars

\* a successful refresh after a driver went away: its major is gone, the other stays
W_C23_MajorDropped ==
    /\ rres.op = "refresh"
    /\ rres.status = "Ok"
    /\ 65 \in DOMAIN rres.before.by_id
    /\ 65 \notin DOMAIN registry.by_id
    /\ DevicesCache_get_by_id(registry, 8) = Some(N_sd)

(***************************************************************************)
(* Claims about the rescan of the devfs tree.                              *)
(***************************************************************************)
\* a block-device node itself, not a symbolic link to one
IsBlockNode(p) == nodes[p].kind = "blk"

\* the nodes a full scan visits, in directory order: block-device nodes that are
\* neither symbolic links nor hidden nor under shm
ScanOrder == SelectSeq(<<"/dev/sda", "/dev/mapper/x", "/dev/sdb">>, IsBlockNode)

\* the position in ScanOrder of the first node numbered d, 0 when there is none
FirstMatch(d) ==
    IF \E i \in 1..Len(ScanOrder) : rdev(nodes, ScanOrder[i]) = d
    THEN CHOOSE i \in 1..Len(ScanOrder) :
            /\ rdev(nodes, ScanOrder[i]) = d
            /\ \A j \in 1..(i - 1) : rdev(nodes, ScanOrder[j]) # d
    ELSE 0

\* how many nodes a scan for d visits: up to and including the first match
VisitedCount(d) == IF FirstMatch(d) = 0 THEN Len(ScanOrder) ELSE FirstMatch(d)

\* the positions of the visited nodes numbered dd
VisitedAs(d, dd) == {i \in 1..VisitedCount(d) : rdev(nodes, ScanOrder[i]) = dd}

\* C24: a lookup that misses or finds its entry stale scans the tree without the
\* symbolic links, the hidden names and shm; every block-device node visited, up
\* to and including the first one numbered devno, is entered into the cache with
\* its number, that node's path is returned and no node after it is visited; a
\* scan that ends without a match fails with NotFound and leaves no entry for devno.
C24_ScanFillsUpToTheMatch ==
    (res.op = "lookup" /\ res.route = "scan") =>
        /\ FirstMatch(res.devno) # 0 =>
              /\ res.status = "Ok"
              /\ res.path = ScanOrder[FirstMatch(res.devno)]
              /\ cache[res.devno] = res.path
        /\ FirstMatch(res.devno) = 0 =>
              /\ res.status = "NotFound"
              /\ cache[res.devno] = NoPath
        /\ \A dd \in DevfsNodes \ {res.devno} :
              IF VisitedAs(res.devno, dd) = {}
              THEN cache[dd] = res.before[dd]
              ELSE \E i \in VisitedAs(res.devno, dd) :
                      /\ cache[dd] = ScanOrder[i]
                      /\ \A j \in VisitedAs(res.devno, dd) : j <= i

\* sda1 is found at /dev/sdb after /dev/mapper/x (sda) was visited and entered,
\* while a symbolic link, a hidden node and a node under shm were passed over
W_C24_SkipsAndFills ==
    /\ res.op = "lookup"
    /\ res.route = "scan"
    /\ res.devno = D_sda1
    /\ res.status = "Ok"
    /\ res.path = "/dev/sdb"
    /\ nodes["/dev/sda"] = Lnk(D_sda)
    /\ nodes["/dev/.sdh"] = Blk(D_sda)
    /\ nodes["/dev/shm/sds"] = Blk(D_sda)
    /\ res.before[D_sda] = NoPath
    /\ cache[D_sda] = "/dev/mapper/x"

\* C25: a lookup of devno removes no entry but the one of devno: every other
\* number that had an entry still has one afterwards, stale or not, and that
\* entry is the one it had unless the rescan met a node with that number and
\* wrote its path over it; a lookup answered from the cache changes nothing.
C25_OnlyTheSoughtKeyIsEvicted ==
    res.op = "lookup" =>
        /\ res.route # "scan" => cache = res.before
        /\ \A dd \in DevfsNodes \ {res.devno} :
              /\ res.before[dd] # NoPath => cache[dd] # NoPath
              /\ cache[dd] # res.before[dd] =>
                    /\ res.route = "scan"
                    /\ cache[dd] \in MainSlots
                    /\ IsBlockNode(cache[dd])
                    /\ rdev(nodes, cache[dd]) = dd
        /\ (res.before[res.devno] # NoPath /\ cache[res.devno] = NoPath) =>
              /\ res.status = "NotFound"
              /\ ~Denotes(nodes, res.before[res.devno], res.devno)

\* both entries are stale and sda1 is looked up: its entry goes, the stale
\* entry of sda stays where it was
W_C25_StaleNeighbourStays ==
    /\ res.op = "lookup"
    /\ res.devno = D_sda1
    /\ res.status = "NotFound"
    /\ res.before[D_sda1] # NoPath
    /\ cache[D_sda1] = NoPath
    /\ res.before[D_sda] # NoPath
    /\ ~Denotes(nodes, res.before[D_sda], D_sda)
    /\ cache[D_sda] = res.before[D_sda]

(***************************************************************************)
(* Claims about the registry's borrows.                                    *)
(***************************************************************************)
\* C26: no sequence of registry operations of one thread ends in a borrow
\* panic: whenever refresh, called directly or by a lookup that missed, comes
\* to replace the snapshot, no Ref and no DevicesIter handed out earlier is alive.
C26_NoBorrowPanic ==
    rres.op \in {"refresh_kept", "keep_by_id", "keep_by_name"} => rres.status # "Panic"

====
